---- MODULE Spec2Model ----
(***************************************************************************)
(* Word-sense disambiguation: the context-vector builder (utils.py), the   *)
(* supervised classifier family and the evaluation harness                 *)
(* (supervised.py).                                                        *)
(*                                                                         *)
(* Floating-point values are fixed-point integers: SCALE stands for 1.0.   *)
(* Python's None is the empty tuple.  A dict is a sequence of <<key,       *)
(* value>> pairs in insertion order, which is its iteration order.         *)
(***************************************************************************)
EXTENDS Integers, Sequences, FiniteSets, TLC

VARIABLES
    cv_words,       \* context_vector: the argument `words`
    cv_excl,        \* context_vector: the argument `excl_stopwords`
    cv_weights,     \* context_vector: the argument `weights`
    cv_i,           \* context_vector: position of the zip loop
    v_weights,      \* context_vector: the list `v_weights`
    cv_ret,         \* context_vector: the returned value
    cv_pc,          \* "load", then context_vector: "loop", "done"
    cv_file,        \* load_weights: the file cdict/<word>.txt, if it exists
    cv_warned       \* load_weights: 'Weight file ... not found' was printed

cvVars ==
    <<cv_words, cv_excl, cv_weights, cv_i, v_weights, cv_ret, cv_pc, cv_file,
      cv_warned>>

VARIABLES
    file_w_d,       \* the labeled examples of the file, as get_labeled_ctx returns
    arg_n_train,    \* get_ans_test_train: the argument n_train
    arg_test_ratio, \* get_ans_test_train: the argument test_ratio
    rng,            \* the state of Python's global random generator
    run_i,          \* main: the loop variable i of `for i in range(args.n_runs)`
    proc,           \* the number of the process run
    split_counts,   \* get_ans_test_train: the dict `counts`
    test_data,      \* the returned w_d[:n_test]
    train_data,     \* the returned w_d[n_test:]
    first_split,    \* per seed, the first split observed with it (history)
    s_pc            \* "start", "seeded", "split", "evaluated", "failed", "exit"

splitVars == <<file_w_d, arg_n_train, arg_test_ratio, rng, run_i, proc,
               split_counts, test_data, train_data, first_split, s_pc>>

VARIABLES
    m_method,       \* main: args.method, the name of the model class
    m_train,        \* the train_data the model is built on
    m_window,       \* args.window (0: no window)
    m_query,        \* the context x of a query
    model,          \* the model object
    call_ret,       \* what model(x, with_confidence=True) returned
    m_pc            \* "new", "built", "failed", "called"

modelVars == <<m_method, m_train, m_window, m_query, model, call_ret, m_pc>>

VARIABLES
    e_test,         \* evaluate: the argument test_data
    e_i,            \* evaluate: position of the loop over test_data
    answers,        \* evaluate: the list `answers`
    confidences,    \* evaluate: the list `confidences`
    e_ret,          \* evaluate: the returned tuple
    e_pc            \* "loop", "raised", "returned"

evalVars == <<e_test, e_i, answers, confidences, e_ret, e_pc>>

VARIABLES
    gl_lines,       \* get_labeled_ctx: the lines of the file, split on tabs
    gl_i,           \* get_labeled_ctx: the line number i of the loop
    gl_senses,      \* get_labeled_ctx: the dict `senses`
    gl_other,       \* get_labeled_ctx: `other`
    gl_w_d,         \* get_labeled_ctx: the list `w_d`
    gl_exc,         \* the exception that left get_labeled_ctx, "" if none
    gl_reported,    \* the line number printed by the except clause, 0 if none
    gl_pc           \* "loop", "raised", "returned"

parseVars ==
    <<gl_lines, gl_i, gl_senses, gl_other, gl_w_d, gl_exc, gl_reported, gl_pc>>

VARIABLES
    cl_method,      \* the clustering class: "SKMeansADInit", "SKMeansADMapping"
    cl_n_senses,    \* Method.__init__: the argument n_senses
    ad_descr,       \* get_ad_word(word)['meanings']
    ad_centers,     \* the dict get_ad_centers returned
    cl_centers,     \* SKMeansADInit.cluster: the array `centers` of seeds
    cl_centres,     \* self._c.centres after k-means
    cl_mapping,     \* self.mapping
    cl_pc           \* "start", "done", "raised"

clusterVars ==
    <<cl_method, cl_n_senses, ad_descr, ad_centers, cl_centers, cl_centres,
      cl_mapping, cl_pc>>

VARIABLES
    ck_file,        \* cluster.py: the pickled context-vector file, as load gives it
    ck_rebuild,     \* the --rebuild flag of the run in progress or last made
    ck_runs,        \* the runs of ./cluster.py on the file made so far
    ck_computed,    \* how many times classifier.cluster() was executed (history)
    ck_clusters,    \* the `clusters` of the last run
    ck_previous     \* the `clusters` of the run before the last (history)

cacheVars ==
    <<ck_file, ck_rebuild, ck_runs, ck_computed, ck_clusters, ck_previous>>

VARIABLES
    wc_lines,       \* build_weights.py: the lines of the input file
    wc_global,      \* the count the word2vec server gives for every word
    wc_i,           \* the line `for line in in_f` reads next
    wc_seen,        \* seen
    wc_counts,      \* counts
    wc_out,         \* the (word, weight) lines written to the output file
    wc_exc,         \* the exception write_cdict ended with, "" if none
    wc_pc           \* "idle" | "read" | "done"

weightVars ==
    <<wc_lines, wc_global, wc_i, wc_seen, wc_counts, wc_out, wc_exc, wc_pc>>

VARIABLES
    oc_before,      \* WordsOrderMixin.cv: the text before the word
    oc_after,       \* the text after the word
    oc_window,      \* self.window
    oc_ret,         \* the returned vector, None if no embedding is known
    oc_pc           \* "idle" | "call" | "done"

orderVars == <<oc_before, oc_after, oc_window, oc_ret, oc_pc>>

VARIABLES
    mz_cache,       \* memoize: the dict `cache` of lemmatize_s
    mz_invoked,     \* the arguments the wrapped function was run on (history)
    mz_ret,         \* the last call: (s, the list the caller holds)
    mz_mutations,   \* the changes callers made to lists they were given
    mz_pc           \* "idle" | "ready" | "returned" | "mutated"

memoVars == <<mz_cache, mz_invoked, mz_ret, mz_mutations, mz_pc>>

VARIABLES
    ta_accuracy,    \* the value of model.get_train_accuracy()
    ta_baseline,    \* the value of get_mfs_baseline(train_data)
    ta_pc           \* "idle" | "ready" | "done" | "raised"

trainVars == <<ta_accuracy, ta_baseline, ta_pc>>

vars ==
    <<cvVars, splitVars, modelVars, evalVars, parseVars, clusterVars,
      cacheVars, weightVars,
      orderVars,
      memoVars,
      trainVars>>

\* what the steps of one component leave alone
notCV ==
    <<splitVars, modelVars, evalVars, parseVars, clusterVars, cacheVars,
      weightVars,
      orderVars,
      memoVars,
      trainVars>>
notSplit ==
    <<cvVars, modelVars, evalVars, parseVars, clusterVars, cacheVars,
      weightVars,
      orderVars,
      memoVars,
      trainVars>>
notModel ==
    <<cvVars, splitVars, evalVars, parseVars, clusterVars, cacheVars,
      weightVars,
      orderVars,
      memoVars,
      trainVars>>
notEval ==
    <<cvVars, splitVars, modelVars, parseVars, clusterVars, cacheVars,
      weightVars,
      orderVars,
      memoVars,
      trainVars>>
notParse ==
    <<cvVars, splitVars, modelVars, evalVars, clusterVars, cacheVars,
      weightVars,
      orderVars,
      memoVars,
      trainVars>>
notCache ==
    <<cvVars, splitVars, modelVars, evalVars, parseVars, clusterVars,
      weightVars,
      orderVars,
      memoVars,
      trainVars>>
notTrain ==
    <<cvVars, splitVars, modelVars, evalVars, parseVars, clusterVars,
      cacheVars, weightVars, orderVars, memoVars>>
notMemo ==
    <<cvVars, splitVars, modelVars, evalVars, parseVars, clusterVars,
      cacheVars, weightVars, orderVars,
      trainVars>>
notOrder ==
    <<cvVars, splitVars, modelVars, evalVars, parseVars, clusterVars,
      cacheVars, weightVars,
      memoVars,
      trainVars>>
notWeight ==
    <<cvVars, splitVars, modelVars, evalVars, parseVars, clusterVars,
      cacheVars,
      orderVars,
      memoVars,
      trainVars>>
notCluster ==
    <<cvVars, splitVars, modelVars, evalVars, parseVars, cacheVars,
      weightVars,
      orderVars,
      memoVars,
      trainVars>>

-----------------------------------------------------------------------------
(* Bounds of the model *)

MaxWords == 3

\* labeled examples in a file
MaxExamples == 3

\* main: args.n_runs
MaxRuns == 2

\* process runs on the same file
MaxProcs == 2

\* examples in the training data of a model
MaxTrain == 2

\* examples in the test data of an evaluation
MaxTest == 2

\* header rows and data rows of a labeled-data file
MaxHeader == 3

MaxRows == 2

\* meanings of a dictionary entry, and clusters
MaxSenses == 2

MaxClusters == 2

\* contexts of a context-vector file, and runs of ./cluster.py on it
MaxContexts == 3

MaxClusterRuns == 3

\* tokens on one side of the word, and self.window, for WordsOrderMixin
MaxSide == 2

MaxWindow == 2

\* changes a caller makes to the lists lemmatize_s returned
MaxMutations == 2

\* labeled examples of a training set whose train accuracy is taken
MaxTrainAcc == 3

\* lines of a contexts file given to write_cdict
MaxLines == 3

-----------------------------------------------------------------------------
(* Values *)

\* np.float32 1.0 in fixed point
SCALE == 1000

None == <<>>

\* all sequences over S of length at most n
BSeq(S, n) == UNION {[1..k -> S] : k \in 0..n}

Abs(x) == IF x < 0 THEN -x ELSE x

\* float division a / b (b > 0), rounded to the nearest fixed-point value
RDiv(a, b) ==
    IF a >= 0 THEN (2 * a + b) \div (2 * b) ELSE -((2 * (-a) + b) \div (2 * b))

RECURSIVE SqrtBetween(_, _, _)
SqrtBetween(x, lo, hi) ==
    IF lo >= hi THEN lo
    ELSE LET mid == (lo + hi + 1) \div 2
         IN  IF mid * mid <= x THEN SqrtBetween(x, mid, hi)
             ELSE SqrtBetween(x, lo, mid - 1)

\* np.sqrt on a non-negative value (integer part)
Sqrt(x) == SqrtBetween(x, 0, IF x < 46340 THEN x ELSE 46340)

Dim == 2

ZeroVec == <<0, 0>>

VAdd(a, b) == [k \in 1..Dim |-> a[k] + b[k]]

\* v * weight
VMul(v, weight) == [k \in 1..Dim |-> v[k] * weight]

\* np.sum(vec ** 2)
SumSq(vec) == vec[1] * vec[1] + vec[2] * vec[2]

RECURSIVE VSum(_)
VSum(vectors) ==
    IF vectors = <<>> THEN ZeroVec ELSE VAdd(Head(vectors), VSum(Tail(vectors)))

\* np.mean(vectors, axis=0), vectors non-empty
Mean(vectors) == [k \in 1..Dim |-> RDiv(VSum(vectors)[k], Len(vectors))]

-----------------------------------------------------------------------------
(* The Embedding Provider and the stop-word list *)

Tokens == {"river", "drought", "money", "loan", "the", "qwerty"}

STOPWORDS == {"the"}

\* w2v_vec: the vector of a word, None for an unknown word
w2v_vec(word) ==
    CASE word = "river"   -> <<SCALE, 0>>
      [] word = "drought" -> <<-SCALE, 0>>
      [] word = "money"   -> <<0, SCALE>>
      [] word = "loan"    -> <<(3 * SCALE) \div 5, (4 * SCALE) \div 5>>
      [] word = "the"     -> <<(4 * SCALE) \div 5, -((3 * SCALE) \div 5)>>
      [] OTHER            -> None

\* w2v_vecs: the batched lookup
w2v_vecs(w_list) == [k \in 1..Len(w_list) |-> w2v_vec(w_list[k])]

-----------------------------------------------------------------------------
(* utils.unitvec *)

unitvec(vec) ==
    LET veclen == Sqrt(SumSq(vec))
    IN  IF veclen > 0 THEN [k \in 1..Dim |-> RDiv(vec[k] * SCALE, veclen)]
        ELSE vec

-----------------------------------------------------------------------------
(* utils.context_vector *)

\* a weighting table: `none` stands for weights=None, `tab` is the dict
NoWeights == [none |-> TRUE, tab |-> <<>>]

WeightedTokens == {"river", "money"}

WeightValues == {0, 1, 2}

WeightTables ==
    {NoWeights} \cup
    {[none |-> FALSE, tab |-> t] :
        t \in UNION {[S -> WeightValues] : S \in SUBSET WeightedTokens}}

\* the file cdict/<word>.txt: absent, or a table of weights
WeightFiles == {[exists |-> ~t.none, tab |-> t.tab] : t \in WeightTables}

\* load_weights: the dict read from the file; None, after a message on
\* stderr, when the file does not exist
load_weights(file) ==
    IF file.exists THEN [none |-> FALSE, tab |-> file.tab] ELSE NoWeights

\* weight = 0. in place of the default
WeightOrZero(weights, w) ==
    IF ~weights.none /\ w \in DOMAIN weights.tab THEN weights.tab[w] ELSE 0

\* weight = 1.; try: weight = weights[w]; except KeyError: pass
WeightOf(weights, w) ==
    IF ~weights.none /\ w \in DOMAIN weights.tab THEN weights.tab[w] ELSE 1

\* the test that lets (v, weight) into v_weights
SurvivesZeroFill(w, v, excl_stopwords) ==
    ~excl_stopwords \/ w \notin STOPWORDS

Survives(w, v, excl_stopwords) ==
    v # None /\ (~excl_stopwords \/ w \notin STOPWORDS)

\* the entry appended for a word that survives
VWEntry(w, v, weights) ==
    [v |-> IF v = None THEN ZeroVec ELSE v, weight |-> WeightOf(weights, w)]

\* vectors = [v * weight for v, weight in v_weights]
Weighted(vw) == [k \in 1..Len(vw) |-> VMul(vw[k].v, vw[k].weight)]

\* if v_weights: return unitvec(np.mean(vectors, axis=0)); else: return None
CVResult(vw) == IF vw # <<>> THEN unitvec(Mean(Weighted(vw))) ELSE None

CVInit ==
    /\ cv_words \in BSeq(Tokens, MaxWords)
    /\ cv_excl \in BOOLEAN
    /\ cv_file \in WeightFiles
    /\ cv_weights = NoWeights
    /\ cv_warned = FALSE
    /\ cv_i = 1
    /\ v_weights = <<>>
    /\ cv_ret = None
    /\ cv_pc = "load"

\* weights = load_weights(word, args.weights_root), handed to the model and
\* from there to context_vector
LoadWeights ==
    /\ cv_pc = "load"
    /\ cv_weights' = load_weights(cv_file)
    /\ cv_warned' = ~cv_file.exists
    /\ cv_pc' = "loop"
    /\ UNCHANGED <<cv_words, cv_excl, cv_i, v_weights, cv_ret, cv_file, notCV>>

\* one iteration of `for w, v in zip(words, w2v_vecs(words))`
CVLoop ==
    /\ cv_pc = "loop"
    /\ cv_i <= Len(cv_words)
    /\ LET w == cv_words[cv_i]
           v == w2v_vecs(cv_words)[cv_i]
       IN  v_weights' = IF Survives(w, v, cv_excl)
                        THEN Append(v_weights, VWEntry(w, v, cv_weights))
                        ELSE v_weights
    /\ cv_i' = cv_i + 1
    /\ UNCHANGED <<cv_words, cv_excl, cv_weights, cv_ret, cv_pc, cv_file,
                   cv_warned, notCV>>

\* the end of the loop: the return statement (or falling off the end)
CVReturn ==
    /\ cv_pc = "loop"
    /\ cv_i > Len(cv_words)
    /\ cv_ret' = CVResult(v_weights)
    /\ cv_pc' = "done"
    /\ UNCHANGED <<cv_words, cv_excl, cv_weights, cv_i, v_weights, cv_file,
                   cv_warned, notCV>>

CVNext == LoadWeights \/ CVLoop \/ CVReturn

\* the whole function, as its callers use it
RECURSIVE VWeightsOf(_, _, _, _)
VWeightsOf(words, vecs, excl_stopwords, weights) ==
    IF words = <<>> THEN <<>>
    ELSE LET rest == VWeightsOf(Tail(words), Tail(vecs), excl_stopwords, weights)
         IN  IF Survives(Head(words), Head(vecs), excl_stopwords)
             THEN <<VWEntry(Head(words), Head(vecs), weights)>> \o rest
             ELSE rest

context_vector(words, excl_stopwords, weights) ==
    CVResult(VWeightsOf(words, w2v_vecs(words), excl_stopwords, weights))

-----------------------------------------------------------------------------
(* Claims about context_vector *)

\* |sum(v ** 2) - 1.0| within the float tolerance of the fixed-point values
HasUnitNorm(v) == Abs(SumSq(v) - SCALE * SCALE) * 50 <= SCALE * SCALE

\* the tokens of `words` that survive: known embedding, and not a stop-word
\* when stop-words are excluded
SurvivorIdx ==
    {k \in 1..Len(cv_words) :
        /\ w2v_vec(cv_words[k]) # None
        /\ (cv_excl => cv_words[k] \notin STOPWORDS)}

\* C1: every value other than None returned by context_vector has L2 norm 1
\* (a zero vector is never returned as a defined context vector).
C1_UnitNorm ==
    (cv_pc = "done" /\ cv_ret # None) => HasUnitNorm(cv_ret)

\* C2: context_vector returns None if and only if no token survives; tokens
\* with a null embedding are dropped from the average (the average is over
\* exactly as many vectors as there are surviving tokens).
C2_NoneIffNoSurvivor ==
    cv_pc = "done" =>
        /\ (cv_ret = None) <=> (SurvivorIdx = {})
        /\ Len(v_weights) = Cardinality(SurvivorIdx)

\* a token with a null embedding and a surviving token were both seen
C2_Witness ==
    /\ cv_pc = "done"
    /\ cv_ret # None
    /\ \E k \in 1..Len(cv_words) : w2v_vec(cv_words[k]) = None
    /\ \E k \in 1..Len(cv_words) : cv_words[k] \in STOPWORDS
    /\ cv_excl

\* the token behind the k-th entry of v_weights
SurvivorWord(k) ==
    cv_words[CHOOSE i \in SurvivorIdx :
                 Cardinality({j \in SurvivorIdx : j <= i}) = k]

\* C24: a token absent from the weighting table gets weight 1.0; when the
\* weighting file does not exist load_weights warns and returns no table,
\* every token then gets weight 1.0, and vector building completes.
C24_DefaultWeightIsOne ==
    /\ cv_pc \in {"loop", "done"} =>
          /\ cv_warned <=> ~cv_file.exists
          /\ ~cv_file.exists => cv_weights.none
          /\ cv_file.exists =>
                ~cv_weights.none /\ cv_weights.tab = cv_file.tab
    /\ cv_pc = "done" =>
          \A k \in 1..Len(v_weights) :
              LET w == SurvivorWord(k)
              IN  /\ (cv_file.exists /\ w \notin DOMAIN cv_file.tab) =>
                        v_weights[k].weight = 1
                  /\ ~cv_file.exists => v_weights[k].weight = 1
                  /\ (cv_file.exists /\ w \in DOMAIN cv_file.tab) =>
                        v_weights[k].weight = cv_file.tab[w]

\* a context vector was built after the warning of a missing file
C24_Witness ==
    /\ cv_pc = "done"
    /\ cv_warned
    /\ Len(v_weights) >= 2
    /\ cv_ret # None

\* a token absent from an existing table was given the default weight
C24_AbsentTokenWitness ==
    /\ cv_pc = "done"
    /\ cv_file.exists
    /\ \E k \in 1..Len(v_weights) : SurvivorWord(k) \notin DOMAIN cv_file.tab
    /\ \E k \in 1..Len(v_weights) : SurvivorWord(k) \in DOMAIN cv_file.tab

\* the zero vector is the only defined result that is not of unit norm
CVOnlyZeroOffNorm ==
    (cv_pc = "done" /\ cv_ret # None /\ cv_ret # ZeroVec) => HasUnitNorm(cv_ret)

-----------------------------------------------------------------------------
(* Python's random module: random.seed, random.random, random.shuffle.      *)
(* The generator is a linear congruential generator in place of the        *)
(* Mersenne Twister; random() is state / RngModulus.                        *)

RngModulus == 16

RngStates == 0..(RngModulus - 1)

\* the generator's next state
RngStep(state) == (5 * state + 3) % RngModulus

\* random.seed(a): the state is a function of a alone
SeedKeepsState(a, state) == state

SeedRng(a, state) == (7 * a + 1) % RngModulus

Swap(x, i, j) == [x EXCEPT ![i] = x[j], ![j] = x[i]]

\* for i in reversed(range(1, len(x))): j = int(random() * (i + 1));
\*     x[i], x[j] = x[j], x[i]
\* (i is the 0-based index of the loop; the result is <<x, state>>)
RECURSIVE ShuffleFrom(_, _, _)
ShuffleFrom(x, i, state) ==
    IF i < 1 THEN <<x, state>>
    ELSE LET next == RngStep(state)
             j    == (next * (i + 1)) \div RngModulus
         IN  ShuffleFrom(Swap(x, i + 1, j + 1), i - 1, next)

\* random.shuffle(x)
Shuffle(x, state) == ShuffleFrom(x, Len(x) - 1, state)

-----------------------------------------------------------------------------
(* Python slices *)

Min(a, b) == IF a < b THEN a ELSE b
Max(a, b) == IF a > b THEN a ELSE b

\* the position a slice bound n denotes in a list of length len
SliceBound(n, len) == IF n < 0 THEN Max(len + n, 0) ELSE Min(n, len)

\* s[:n]
SliceTo(s, n) == SubSeq(s, 1, SliceBound(n, Len(s)))

\* s[n:]
SliceFromSkipOne(s, n) == SubSeq(s, SliceBound(n, Len(s)) + 2, Len(s))

SliceFrom(s, n) == SubSeq(s, SliceBound(n, Len(s)) + 1, Len(s))

-----------------------------------------------------------------------------
(* supervised.get_ans_test_train and the run loop of supervised.main *)

SenseIds == {"1", "2"}

\* a labeled example: the context of data line `line`, and its sense
Examples(n) == [1..n -> SenseIds]

LabeledFile(labels) == [k \in 1..Len(labels) |-> [line |-> k, ans |-> labels[k]]]

\* an optional argument: None, or <<value>>
Some(x) == <<x>>

\* test_ratio values, as fractions num / den
TestRatios == {<<1, 4>>, <<1, 2>>, <<3, 4>>}

\* assert n_train or test_ratio
ArgsAccepted(n_train, test_ratio) ==
    (n_train # None /\ n_train[1] # 0) \/ test_ratio # None

\* n_test: int(len(w_d) * test_ratio), or len(w_d) - n_train
NTest(w_d, n_train, test_ratio) ==
    IF n_train = None
    THEN (Len(w_d) * test_ratio[1][1]) \div test_ratio[1][2]
    ELSE Len(w_d) - n_train[1]

\* counts[ans] += 1 for every (__, ans) in w_d
CountsOf(w_d) ==
    [ans \in SenseIds |-> Cardinality({k \in 1..Len(w_d) : w_d[k].ans = ans})]

SplitInit ==
    /\ \E n \in 0..MaxExamples : \E labels \in Examples(n) :
           file_w_d = LabeledFile(labels)
    /\ arg_n_train \in {None} \cup {Some(n) : n \in 0..(MaxExamples + 1)}
    /\ arg_test_ratio \in {None} \cup {Some(r) : r \in TestRatios}
    /\ rng \in RngStates
    /\ run_i = 0
    /\ proc = 1
    /\ split_counts = CountsOf(<<>>)
    /\ test_data = <<>>
    /\ train_data = <<>>
    /\ first_split = [i \in 0..MaxRuns |-> None]
    /\ s_pc = "start"

\* main: random.seed(i)
Seed ==
    /\ s_pc = "start"
    /\ run_i < MaxRuns
    /\ rng' = SeedRng(run_i, rng)
    /\ s_pc' = "seeded"
    /\ UNCHANGED <<file_w_d, arg_n_train, arg_test_ratio, run_i, proc,
                   split_counts, test_data, train_data, first_split, notSplit>>

\* get_ans_test_train: the assertion fails
GetAnsTestTrainAssert ==
    /\ s_pc = "seeded"
    /\ ~ArgsAccepted(arg_n_train, arg_test_ratio)
    /\ s_pc' = "failed"
    /\ UNCHANGED <<file_w_d, arg_n_train, arg_test_ratio, rng, run_i, proc,
                   split_counts, test_data, train_data, first_split, notSplit>>

\* get_ans_test_train: counts, n_test, shuffle, the two slices
GetAnsTestTrain ==
    /\ s_pc = "seeded"
    /\ ArgsAccepted(arg_n_train, arg_test_ratio)
    /\ LET n_test   == NTest(file_w_d, arg_n_train, arg_test_ratio)
           shuffled == Shuffle(file_w_d, rng)
           w_d      == shuffled[1]
       IN  /\ split_counts' = CountsOf(file_w_d)
           /\ rng' = shuffled[2]
           /\ test_data' = SliceTo(w_d, n_test)
           /\ train_data' = SliceFrom(w_d, n_test)
           /\ first_split' =
                 IF first_split[run_i] = None
                 THEN [first_split EXCEPT
                          ![run_i] = Some(<<SliceTo(w_d, n_test), SliceFrom(w_d, n_test)>>)]
                 ELSE first_split
    /\ s_pc' = "split"
    /\ UNCHANGED <<file_w_d, arg_n_train, arg_test_ratio, run_i, proc, notSplit>>

\* main: the model is built on train_data and evaluated on test_data; neither
\* reads nor advances the global random generator
TrainEvaluate ==
    /\ s_pc = "split"
    /\ s_pc' = "evaluated"
    /\ UNCHANGED <<file_w_d, arg_n_train, arg_test_ratio, rng, run_i, proc,
                   split_counts, test_data, train_data, first_split, notSplit>>

\* main: the next iteration of the run loop, or the end of the process
NextRun ==
    /\ s_pc = "evaluated"
    /\ run_i' = run_i + 1
    /\ s_pc' = IF run_i + 1 < MaxRuns THEN "start" ELSE "exit"
    /\ UNCHANGED <<file_w_d, arg_n_train, arg_test_ratio, rng, proc,
                   split_counts, test_data, train_data, first_split, notSplit>>

\* the program is started again on the same file with the same arguments;
\* the generator of a new process starts from the operating system's entropy
StartProcess ==
    /\ s_pc = "exit"
    /\ proc < MaxProcs
    /\ proc' = proc + 1
    /\ rng' \in RngStates
    /\ run_i' = 0
    /\ s_pc' = "start"
    /\ UNCHANGED <<file_w_d, arg_n_train, arg_test_ratio,
                   split_counts, test_data, train_data, first_split, notSplit>>

SplitNext ==
    \/ Seed
    \/ GetAnsTestTrainAssert
    \/ GetAnsTestTrain
    \/ TrainEvaluate
    \/ NextRun
    \/ StartProcess

-----------------------------------------------------------------------------
(* Claims about the train/test split *)

Lines(data) == {data[k].line : k \in 1..Len(data)}

SplitDone == s_pc \in {"split", "evaluated"}

\* C7: the test and train lists are disjoint as example occurrences and
\* together contain every labeled example of the file exactly once.
C7_Partition ==
    SplitDone =>
        /\ Lines(test_data) \cap Lines(train_data) = {}
        /\ Lines(test_data) \cup Lines(train_data) = Lines(file_w_d)
        /\ Len(test_data) + Len(train_data) = Len(file_w_d)
        /\ \A k \in 1..Len(test_data) : file_w_d[test_data[k].line] = test_data[k]
        /\ \A k \in 1..Len(train_data) : file_w_d[train_data[k].line] = train_data[k]

\* a split with both parts non-empty, of a file with both senses, shuffled
\* out of file order
C7_Witness ==
    /\ SplitDone
    /\ Len(test_data) >= 1
    /\ Len(train_data) >= 2
    /\ train_data[1].line > train_data[2].line

\* C8: with a fixed n_train the training set has exactly n_train examples
\* and the test set the rest, for every n_train >= 1; when n_train is at least
\* the number of examples the training set is all examples and the test set is
\* empty; with test_ratio the test set has floor(N * test_ratio) examples.
C8_SplitSizes ==
    SplitDone =>
        LET N == Len(file_w_d)
        IN  IF arg_n_train # None
            THEN IF arg_n_train[1] >= N
                 THEN Len(train_data) = N /\ Len(test_data) = 0
                 ELSE Len(train_data) = arg_n_train[1]
                      /\ Len(test_data) = N - arg_n_train[1]
            ELSE Len(test_data) =
                     (N * arg_test_ratio[1][1]) \div arg_test_ratio[1][2]

\* C9: the split is a function of the seed and the file only: a run seeded
\* with i gets the test and train lists that the first run seeded with i got.
C9_SplitReproducible ==
    SplitDone => first_split[run_i] = Some(<<test_data, train_data>>)

\* a second process has repeated a seed after starting from another
\* generator state, with a split that depends on the shuffle
C9_Witness ==
    /\ SplitDone
    /\ proc = 2
    /\ Len(test_data) >= 1
    /\ Len(train_data) >= 1
    /\ test_data \o train_data # file_w_d

-----------------------------------------------------------------------------
(* Contexts and SupervisedModel.cv *)

\* mystem.lemmatize on one token of the text
Lemma(w) ==
    CASE w = "banks"  -> "bank"
      [] w = "rivers" -> "river"
      [] OTHER        -> w

\* lemmatize_s(s): the lemmas of the text s (a sequence of raw tokens; the
\* ' ' and '\n' items mystem returns between them are dropped)
lemmatize_s(s) == [k \in 1..Len(s) |-> Lemma(s[k])]

\* word_re.match(w): the token starts with a word character
WordLike(w) == w \notin {",", "."}

RECURSIVE SelectWords(_, _)
\* [w for w in lemmatize_s(s) if word_re.match(w) and w != word]
SelectWords(lemmas, word) ==
    IF lemmas = <<>> THEN <<>>
    ELSE LET rest == SelectWords(Tail(lemmas), word)
         IN  IF WordLike(Head(lemmas)) /\ Head(lemmas) # word
             THEN <<Head(lemmas)>> \o rest ELSE rest

get_words(s, word) == SelectWords(lemmatize_s(s), word)

\* before[-window:]
LastN(s, n) == SubSeq(s, Max(Len(s) - n, 0) + 1, Len(s))

\* after[:window]
FirstN(s, n) == SubSeq(s, 1, Min(n, Len(s)))

\* the words SupervisedModel.cv hands to context_vector; window is 0 when
\* no window is set (`if self.window:`)
CtxWords(ctx, window) ==
    LET word   == lemmatize_s(<<ctx.word>>)[1]
        before == get_words(ctx.before, word)
        after  == get_words(ctx.after, word)
    IN  IF window # 0
        THEN LastN(before, window) \o FirstN(after, window)
        ELSE before \o after

\* a Context: (before, word, after)
Ctx(before, after) == [before |-> before, word |-> "bank", after |-> after]

\* the contexts of the labeled data
CtxRiver   == Ctx(<<"the", "rivers">>, <<>>)
CtxMoney   == Ctx(<<"money">>, <<"loan", "qwerty">>)
CtxDrought == Ctx(<<>>, <<"drought", ",", "river">>)
CtxUnknown == Ctx(<<"qwerty", "the">>, <<",", "banks">>)
CtxCancel  == Ctx(<<"river">>, <<"drought">>)
CtxLoan    == Ctx(<<"loan">>, <<>>)
CtxDry     == Ctx(<<"drought">>, <<>>)

Contexts == {CtxRiver, CtxMoney, CtxDrought, CtxUnknown, CtxCancel}

\* (x, ans)
Labeled(C) == [x : C, ans : SenseIds]


-----------------------------------------------------------------------------
(* Python dicts, max and sorted *)

\* the first of the pairs, whatever their second components
PyFirst(pairs) == pairs[1]

\* the pairs in their given order, not sorted
Unsorted(pairs) == pairs

\* list(d.keys())
Keys(d) == [k \in 1..Len(d) |-> d[k][1]]

HasKey(d, key) == \E k \in 1..Len(d) : d[k][1] = key

\* d[key]
Get(d, key) == d[CHOOSE k \in 1..Len(d) : d[k][1] = key][2]

\* d[key] = value
Put(d, key, value) ==
    IF HasKey(d, key)
    THEN [k \in 1..Len(d) |-> IF d[k][1] = key THEN <<key, value>> ELSE d[k]]
    ELSE Append(d, <<key, value>>)

\* max(pairs, key=itemgetter(1)): the first of the pairs with the largest
\* second component (pairs non-empty)
PyMax(pairs) ==
    pairs[CHOOSE k \in 1..Len(pairs) :
              /\ \A j \in 1..Len(pairs) : pairs[j][2] <= pairs[k][2]
              /\ \A j \in 1..(k - 1) : pairs[j][2] < pairs[k][2]]

\* the place of a new pair in a list sorted by descending second component,
\* after the pairs that are not smaller (the sort is stable)
RECURSIVE InsertDesc(_, _)
InsertDesc(sorted, p) ==
    IF sorted = <<>> THEN <<p>>
    ELSE IF Head(sorted)[2] >= p[2]
         THEN <<Head(sorted)>> \o InsertDesc(Tail(sorted), p)
         ELSE <<p>> \o sorted

\* sorted(pairs, key=itemgetter(1), reverse=True)
RECURSIVE SortedDesc(_)
SortedDesc(pairs) ==
    IF pairs = <<>> THEN <<>>
    ELSE InsertDesc(SortedDesc(SubSeq(pairs, 1, Len(pairs) - 1)),
                    pairs[Len(pairs)])

RECURSIVE SumSeq(_)
SumSeq(xs) == IF xs = <<>> THEN 0 ELSE Head(xs) + SumSeq(Tail(xs))

RECURSIVE Flatten(_)
Flatten(lists) ==
    IF lists = <<>> THEN <<>> ELSE Head(lists) \o Flatten(Tail(lists))

-----------------------------------------------------------------------------
(* Cosine closeness *)

Dot(a, b) == a[1] * b[1] + a[2] * b[2]

\* utils.v_closeness(v1, v2): the cosine of the angle between v1 and v2
v_closeness(v1, v2) == RDiv(Dot(unitvec(v1), unitvec(v2)), SCALE)

-----------------------------------------------------------------------------
(* supervised.SupervisedModel and its subclasses *)

Methods ==
    {"SphericalModel", "KNearestModel", "GMMModel", "DNNModel",
     "SupervisedWrapper"}

\* class attribute supersample
Supersample(method) == method = "DNNModel"

\* SupervisedModel.cv with excl_stopwords=True and no weights: the value
\* returned is the context vector that utils.context_vector computes for
\* the window of words around the target
cv(ctx, window) == context_vector(CtxWords(ctx, window), TRUE, NoWeights)

\* n = sum(len(part.split()) for part in x) if self.supersample else 1
NCopies(x, supersample) ==
    IF supersample THEN Len(x.before) + 1 + Len(x.after) ELSE 1

\* for x, ans in train_data: for _ in range(n): examples[ans].append(x)
RECURSIVE ExamplesOf(_, _)
ExamplesOf(train, supersample) ==
    IF train = <<>> THEN <<>>
    ELSE LET last == train[Len(train)]
             d    == ExamplesOf(SubSeq(train, 1, Len(train) - 1), supersample)
             old  == IF HasKey(d, last.ans) THEN Get(d, last.ans) ELSE <<>>
             new  == [k \in 1..NCopies(last.x, supersample) |-> last.x]
         IN  Put(d, last.ans, old \o new)

\* np.array([cv for cv in map(self.cv, xs) if cv is not None])
DefinedVectors(xs, window) ==
    LET IsDefined(v) == v # None
    IN  SelectSeq([k \in 1..Len(xs) |-> cv(xs[k], window)], IsDefined)

\* self.context_vectors
ContextVectorsOf(examples, window) ==
    [k \in 1..Len(examples) |->
        <<examples[k][1], DefinedVectors(examples[k][2], window)>>]

\* max(((ans, len(ex)) for ans, ex in examples.items()), key=itemgetter(1))[0]
DominantSense(examples) ==
    PyMax([k \in 1..Len(examples) |->
           <<examples[k][1], Len(examples[k][2])>>])[1]

\* SupervisedModel.__init__
SupervisedModelInit(method, train, window) ==
    LET examples == ExamplesOf(train, Supersample(method))
    IN  [built           |-> "ok",
         method          |-> method,
         window          |-> window,
         examples        |-> examples,
         context_vectors |-> ContextVectorsOf(examples, window),
         sense_vectors   |-> None,
         senses          |-> <<>>,
         has_dominant    |-> examples # <<>>,
         dominant_sense  |-> IF examples # <<>> THEN DominantSense(examples)
                             ELSE ""]

\* an exception left the constructor: there is no model object
Raised(m) == [m EXCEPT !.built = "raised"]

\* cvs.any()
AnyNonZero(cvs) == \E k \in 1..Len(cvs) : \E c \in 1..Dim : cvs[k][c] # 0

\* SphericalModel.__init__
SphericalInit(train, window) ==
    LET m == SupervisedModelInit("SphericalModel", train, window)
        HasCentroid(item) == AnyNonZero(item[2])
        kept == SelectSeq(m.context_vectors, HasCentroid)
    IN  [m EXCEPT !.sense_vectors =
            [k \in 1..Len(kept) |-> <<kept[k][1], Mean(kept[k][2])>>]]

\* KNearestModel.__init__
KNearestInit(train, window) == SupervisedModelInit("KNearestModel", train, window)

\* GMMModel.__init__: self.sense_vectors is still None when the means are
\* read from it, and iterating self.senses fails before that when it is the
\* 0-d array of a dict view
GMMInit(train, window) == Raised(SupervisedModelInit("GMMModel", train, window))

\* DNNModel.__init__: xs.shape[1] in _build_fit_model fails on an empty xs
DNNInit(train, window) ==
    LET m  == SupervisedModelInit("DNNModel", train, window)
        xs == Flatten([k \in 1..Len(m.context_vectors) |-> m.context_vectors[k][2]])
    IN  IF xs = <<>> THEN Raised(m)
        ELSE [m EXCEPT !.senses = Keys(m.context_vectors)]

\* SupervisedWrapper.__init__: train_data=[]
WrapperInit(window) == SupervisedModelInit("SupervisedWrapper", <<>>, window)

\* model_class(train_data, window=...)
Construct(method, train, window) ==
    CASE method = "SphericalModel"    -> SphericalInit(train, window)
      [] method = "KNearestModel"     -> KNearestInit(train, window)
      [] method = "GMMModel"          -> GMMInit(train, window)
      [] method = "DNNModel"          -> DNNInit(train, window)
      [] method = "SupervisedWrapper" -> WrapperInit(window)


-----------------------------------------------------------------------------
(* __call__ of the classifiers, with with_confidence=True *)

\* the returned (m_ans, confidence)
Ret(ans, conf) == [st |-> "ok", ans |-> ans, conf |-> conf]

\* a returned bare sense, no pair
Bare(ans) == [st |-> "bare", ans |-> ans, conf |-> 0]

\* the call raised
RaisedRet == [st |-> "raised", ans |-> "", conf |-> 0]

NoRet == [st |-> "none", ans |-> "", conf |-> 0]

\* m_ans = self.dominant_sense; return (m_ans, 0.0)
\* (the attribute is missing when there were no examples)
Fallback(m) == IF m.has_dominant THEN Ret(m.dominant_sense, 0) ELSE RaisedRet

\* [(ans, v_closeness(v, sense_v)) for ans, sense_v in sense_vectors.items()]
AnsCloseness(v, sense_vectors) ==
    [k \in 1..Len(sense_vectors) |->
        <<sense_vectors[k][1], v_closeness(v, sense_vectors[k][2])>>]

\* closeness[0] - closeness[1] if len(closeness) >= 2 else 1.0
TopGap(sorted) ==
    IF Len(sorted) >= 2 THEN sorted[1][2] - sorted[2][2] ELSE SCALE

\* SphericalModel.__call__
SphericalCall(m, x) ==
    LET v == cv(x, m.window)
        ans_closeness == AnsCloseness(v, m.sense_vectors)
    IN  IF v = None THEN Fallback(m)
        ELSE IF ans_closeness = <<>> THEN RaisedRet
        ELSE Ret(PyMax(ans_closeness)[1], TopGap(SortedDesc(ans_closeness)))

\* KNearestModel.__init__: kwargs.pop('k_nearest', 3)
k_nearest == 3

\* ((ans, v_closeness(v, _v)) for ans, context_vectors in
\*  self.context_vectors.items() for _v in context_vectors)
NeighbourCloseness(v, context_vectors) ==
    Flatten([k \in 1..Len(context_vectors) |->
        [j \in 1..Len(context_vectors[k][2]) |->
            <<context_vectors[k][1], v_closeness(v, context_vectors[k][2][j])>>]])

\* ans_counts and ans_closeness over the top k: per sense, in the order of
\* first appearance, the list of its closeness values
RECURSIVE GroupByAns(_)
GroupByAns(top) ==
    IF top = <<>> THEN <<>>
    ELSE LET last == top[Len(top)]
             d    == GroupByAns(SubSeq(top, 1, Len(top) - 1))
             old  == IF HasKey(d, last[1]) THEN Get(d, last[1]) ELSE <<>>
         IN  Put(d, last[1], Append(old, last[2]))

\* np.mean of a list of closeness values
MeanOf(xs) == RDiv(SumSeq(xs), Len(xs))

\* KNearestModel.__call__
KNearestCall(m, x) ==
    LET v == cv(x, m.window)
        sorted_answers == SortedDesc(NeighbourCloseness(v, m.context_vectors))
        groups == GroupByAns(FirstN(sorted_answers, k_nearest))
        ans_counts == [k \in 1..Len(groups) |-> <<groups[k][1], Len(groups[k][2])>>]
        max_count == PyMax(ans_counts)[2]
        IsTop(g) == Len(g[2]) = max_count
        tied == SelectSeq(groups, IsTop)
    IN  IF v = None THEN Fallback(m)
        ELSE IF groups = <<>> THEN RaisedRet
        ELSE Ret(PyMax([k \in 1..Len(tied) |->
                          <<tied[k][1], MeanOf(tied[k][2])>>])[1], SCALE)

\* GMMModel.__call__: classifier.predict(v)[0] picks the component `comp`
GMMCall(m, x, comp) ==
    IF cv(x, m.window) = None THEN RaisedRet
    ELSE Bare(Keys(m.context_vectors)[comp])

\* the values a component of np.max(probs, axis=0) takes
ProbValues == {0, (17 * SCALE) \div 100, SCALE}

\* DNNModel.__call__: probs is the element-wise maximum of the ensemble's
\* predictions, one probability per sense
DNNCall(m, x, probs) ==
    LET indexed == [k \in 1..Len(probs) |-> <<k, probs[k]>>]
    IN  IF cv(x, m.window) = None THEN Fallback(m)
        ELSE Ret(m.senses[PyMax(indexed)[1]], TopGap(SortedDesc(indexed)))

\* the clustering model a SupervisedWrapper wraps: SKMeans centres and the
\* mapping cluster -> sense id
WrappedCentres == <<unitvec(<<SCALE, 0>>), unitvec(<<0, SCALE>>)>>

WrappedMapping == <<1, 2>>

\* str(sense id)
Str(n) == CASE n = 1 -> "1" [] n = 2 -> "2" [] OTHER -> "None"

\* SKMeans.predict: np.argmax(np.dot(self._c.centres, v))
ClusterPredict(v) ==
    PyMax([k \in 1..Len(WrappedCentres) |-> <<k, Dot(WrappedCentres[k], v)>>])[1]

\* SupervisedWrapper.__call__: np.dot fails on a None vector
WrapperCall(m, x) ==
    LET v == cv(x, m.window)
    IN  IF v = None THEN RaisedRet
        ELSE Ret(Str(WrappedMapping[ClusterPredict(v)]), 0)

\* what the trained networks / mixture may answer for the model
Oracles(m) ==
    CASE m.method = "DNNModel" -> [1..Len(m.senses) -> ProbValues]
      [] m.method = "GMMModel" -> 1..Len(m.context_vectors)
      [] OTHER                 -> {0}

\* model(x, c_ans, with_confidence=True)
Call(m, x, oracle) ==
    CASE m.method = "SphericalModel"    -> SphericalCall(m, x)
      [] m.method = "KNearestModel"     -> KNearestCall(m, x)
      [] m.method = "GMMModel"          -> GMMCall(m, x, oracle)
      [] m.method = "DNNModel"          -> DNNCall(m, x, oracle)
      [] m.method = "SupervisedWrapper" -> WrapperCall(m, x)

-----------------------------------------------------------------------------
(* One classifier: construction, then one query *)

Windows == {0, 1}

NoModel == Raised(SupervisedModelInit("", <<>>, 0))

ModelInit ==
    /\ m_method \in Methods
    /\ m_train \in BSeq(Labeled(Contexts), MaxTrain)
    /\ m_window \in Windows
    /\ m_query \in Contexts
    /\ model = NoModel
    /\ call_ret = NoRet
    /\ m_pc = "new"

\* model = model_class(train_data, window=args.window)
ConstructModel ==
    /\ m_pc = "new"
    /\ model' = Construct(m_method, m_train, m_window)
    /\ m_pc' = IF model'.built = "ok" THEN "built" ELSE "failed"
    /\ UNCHANGED <<m_method, m_train, m_window, m_query, call_ret, notModel>>

\* model(x, with_confidence=True)
Classify ==
    /\ m_pc = "built"
    /\ \E oracle \in Oracles(model) : call_ret' = Call(model, m_query, oracle)
    /\ m_pc' = "called"
    /\ UNCHANGED <<m_method, m_train, m_window, m_query, model, notModel>>

ModelNext == ConstructModel \/ Classify


-----------------------------------------------------------------------------
(* Claims about the classifiers *)

\* the vector of the query context is Undefined
QueryUndefined == cv(m_query, m_window) = None

\* the number of training examples of a sense, each labeled example once
TrainCount(ans) == Cardinality({k \in 1..Len(m_train) : m_train[k].ans = ans})

\* a sense with the most training examples
IsDominant(ans) ==
    /\ TrainCount(ans) > 0
    /\ \A a \in SenseIds : TrainCount(a) <= TrainCount(ans)

\* the sense has training examples and none of them has a defined vector
NoDefinedVector(ans) ==
    /\ TrainCount(ans) > 0
    /\ \A k \in 1..Len(m_train) :
           m_train[k].ans = ans => cv(m_train[k].x, m_window) = None

\* C3: for every strategy, classifying a context whose vector is Undefined
\* returns the dominant sense of the training set with confidence 0.0,
\* without raising an error.
C3_UndefinedFallsBack ==
    (m_pc = "called" /\ QueryUndefined
        /\ (model.examples # <<>> \/ m_method = "SupervisedWrapper")) =>
        /\ call_ret.st = "ok"
        /\ call_ret.conf = 0
        /\ (model.examples # <<>> => IsDominant(call_ret.ans))

\* C4: the confidence returned with with_confidence=True lies in [0, 1]
\* (the spherical model's gap between the best and the second-best cosine
\* similarity never exceeds 1).
C4_ConfidenceInUnitInterval ==
    (m_pc = "called" /\ call_ret.st = "ok") =>
        (0 <= call_ret.conf /\ call_ret.conf <= SCALE)

\* C5: a sense whose training examples all have Undefined vectors gets no
\* centroid, no query (defined or Undefined) returns it, and a defined query
\* does not fail when another sense has a centroid.
C5_VectorlessSenseNeverSelected ==
    \A a \in SenseIds :
        (m_method = "SphericalModel" /\ m_pc \in {"built", "called"}
            /\ NoDefinedVector(a)) =>
            /\ ~HasKey(model.sense_vectors, a)
            /\ (m_pc = "called" /\ call_ret.st = "ok") => call_ret.ans # a
            /\ (m_pc = "called" /\ ~QueryUndefined /\ model.sense_vectors # <<>>)
                   => call_ret.st = "ok"

\* C6: constructing the model never fails because some sense has no defined
\* training vectors, for every strategy, the mixture model included.
C6_TrainingNeverFails ==
    (m_pc # "new" /\ \E a \in SenseIds : NoDefinedVector(a)) =>
        model.built = "ok"


-----------------------------------------------------------------------------
(* supervised.evaluate *)

\* a // b: the truncated integer quotient
FloorDivision(a, b) == <<a \div b, 1>>

\* a / b on integers: true division; the quotient is kept as <<a, b>>
TrueDiv(a, b) == <<a, b>>

\* comparisons and differences of quotients with positive denominators
FracLeq(p, q) == p[1] * q[2] <= q[1] * p[2]

FracEq(p, q) == p[1] * q[2] = q[1] * p[2]

\* abs(p - q)
FracAbsDiff(p, q) == <<Abs(p[1] * q[2] - q[1] * p[2]), p[2] * q[2]>>

\* max over a non-empty set of quotients
FracMax(S) == CHOOSE f \in S : \A g \in S : FracLeq(g, f)

\* the class attribute confidence_threshold, where the class has one
HasThreshold(method) == method \in {"SphericalModel", "DNNModel"}

ConfidenceThreshold(method) ==
    IF method = "SphericalModel" THEN (5 * SCALE) \div 100
    ELSE (17 * SCALE) \div 100

\* the estimate with c >= threshold in place of c > threshold
EstimateAtLeast(confs, threshold) ==
    TrueDiv(Cardinality({k \in 1..Len(confs) : confs[k] >= threshold}),
            Len(confs))

\* sum(c > threshold for c in confidences) / len(confidences)
get_accuracy_estimate(confs, threshold) ==
    TrueDiv(Cardinality({k \in 1..Len(confs) : confs[k] > threshold}),
            Len(confs))

\* count // len(answers) in place of the true quotient
FreqFloor(labels, s) ==
    LET count == Cardinality({k \in 1..Len(labels) : labels[k] = s})
    IN  FloorDivision(count, Len(labels))

\* _get_freqs(answers)[s]: count / len(answers), 0.0 for a missing key
Freq(labels, s) ==
    LET count == Cardinality({k \in 1..Len(labels) : labels[k] = s})
    IN  IF count = 0 THEN <<0, 1>> ELSE TrueDiv(count, Len(labels))

SeqToSet(xs) == {xs[k] : k \in 1..Len(xs)}

\* max(abs(freqs[s] - model_freqs[s]) for s in all_senses)
MaxFreqError(true_labels, model_labels) ==
    LET all_senses == SeqToSet(true_labels) \cup SeqToSet(model_labels)
    IN  FracMax({FracAbsDiff(Freq(true_labels, s), Freq(model_labels, s)) :
                    s \in all_senses})

\* the tuple evaluate returns (the Jensen-Shannon divergence is left out)
EvaluateResult(method, test, ans_list, confs) ==
    LET true_labels  == [k \in 1..Len(test) |-> test[k].ans]
        model_labels == [k \in 1..Len(ans_list) |-> ans_list[k].model_ans]
        n_correct    == Cardinality({k \in 1..Len(ans_list) :
                            ans_list[k].ans = ans_list[k].model_ans})
    IN  [st             |-> "ok",
         accuracy       |-> TrueDiv(n_correct, Len(ans_list)),
         max_freq_error |-> MaxFreqError(true_labels, model_labels),
         estimate       |-> get_accuracy_estimate(confs,
                                ConfidenceThreshold(method)),
         answers        |-> ans_list]

NoResult ==
    [st |-> "none", accuracy |-> <<0, 1>>, max_freq_error |-> <<0, 1>>,
     estimate |-> <<0, 1>>, answers |-> <<>>]

\* the training sets of the evaluated models
EvalTrainSets ==
    { <<>>,
      <<[x |-> CtxMoney, ans |-> "1"]>>,
      <<[x |-> CtxRiver, ans |-> "1"], [x |-> CtxMoney, ans |-> "2"]>>,
      <<[x |-> CtxUnknown, ans |-> "1"], [x |-> CtxRiver, ans |-> "2"]>>,
      <<[x |-> CtxUnknown, ans |-> "1"], [x |-> CtxDry, ans |-> "2"],
        [x |-> CtxDry, ans |-> "2"]>> }

\* the contexts of the test examples
EvalContexts == {CtxRiver, CtxMoney, CtxUnknown}

EvalInit ==
    /\ m_method \in Methods
    /\ m_train \in EvalTrainSets
    /\ m_window \in Windows
    /\ m_query = CtxUnknown
    /\ model = NoModel
    /\ call_ret = NoRet
    /\ m_pc = "new"
    /\ e_test \in BSeq(Labeled(EvalContexts), MaxTest)
    /\ e_i = 1
    /\ answers = <<>>
    /\ confidences = <<>>
    /\ e_ret = NoResult
    /\ e_pc = "loop"

\* one iteration of `for x, ans in test_data`: the call returns a pair that
\* is unpacked and recorded
EvaluateCall ==
    /\ m_pc = "built"
    /\ e_pc = "loop"
    /\ e_i <= Len(e_test)
    /\ \E oracle \in Oracles(model) :
          LET r == Call(model, e_test[e_i].x, oracle)
          IN  /\ r.st = "ok"
              /\ answers' = Append(answers,
                     [x |-> e_test[e_i].x, ans |-> e_test[e_i].ans,
                      model_ans |-> r.ans])
              /\ confidences' = Append(confidences, r.conf)
    /\ e_i' = e_i + 1
    /\ UNCHANGED <<e_test, e_ret, e_pc, notEval>>

\* one iteration of the loop: the call raises, or returns no pair to unpack
EvaluateCallRaises ==
    /\ m_pc = "built"
    /\ e_pc = "loop"
    /\ e_i <= Len(e_test)
    /\ \E oracle \in Oracles(model) :
          Call(model, e_test[e_i].x, oracle).st # "ok"
    /\ e_pc' = "raised"
    /\ UNCHANGED <<e_test, e_i, answers, confidences, e_ret, notEval>>

\* after the loop: model.confidence_threshold is missing, or the test set is
\* empty and a quotient divides by zero
EvaluateRaises ==
    /\ m_pc = "built"
    /\ e_pc = "loop"
    /\ e_i > Len(e_test)
    /\ ~HasThreshold(model.method) \/ answers = <<>>
    /\ e_pc' = "raised"
    /\ UNCHANGED <<e_test, e_i, answers, confidences, e_ret, notEval>>

\* after the loop: the metrics are computed and returned
EvaluateReturn ==
    /\ m_pc = "built"
    /\ e_pc = "loop"
    /\ e_i > Len(e_test)
    /\ HasThreshold(model.method) /\ answers # <<>>
    /\ e_ret' = EvaluateResult(model.method, e_test, answers, confidences)
    /\ e_pc' = "returned"
    /\ UNCHANGED <<e_test, e_i, answers, confidences, notEval>>

EvalNext ==
    \/ ConstructModel
    \/ EvaluateCall
    \/ EvaluateCallRaises
    \/ EvaluateRaises
    \/ EvaluateReturn

-----------------------------------------------------------------------------
(* Claims about evaluate *)

\* the test examples whose predicted sense equals the true sense
CorrectAt ==
    {k \in 1..Len(e_test) : e_ret.answers[k].model_ans = e_test[k].ans}

\* C10: on a non-empty test set the accuracy returned by evaluate is the
\* number of test examples predicted correctly divided by the number of test
\* examples, as an exact fraction.
C10_AccuracyIsFraction ==
    e_pc = "returned" =>
        /\ Len(e_ret.answers) = Len(e_test)
        /\ FracEq(e_ret.accuracy, <<Cardinality(CorrectAt), Len(e_test)>>)

\* some predictions right and some wrong
C10_Witness ==
    /\ e_pc = "returned"
    /\ CorrectAt # {}
    /\ CorrectAt # 1..Len(e_test)

\* the number of test examples labeled s, and the number predicted as s
TrueCount(s) == Cardinality({k \in 1..Len(e_test) : e_test[k].ans = s})

PredCount(s) ==
    Cardinality({k \in 1..Len(e_ret.answers) : e_ret.answers[k].model_ans = s})

\* the senses seen in the true labels or in the predictions
SeenSenses == {s \in SenseIds \cup {"None"} : TrueCount(s) + PredCount(s) > 0}

\* n labels "1" followed by m labels "2"
Labels12(n, m) == [k \in 1..(n + m) |-> IF k <= n THEN "1" ELSE "2"]

\* C11: the max frequency error returned by evaluate is the maximum, over
\* the senses seen in the true labels or in the predictions, of
\* |true count - predicted count| / N, a sense absent on one side counting 0;
\* for true counts {1:6, 2:4} and predicted counts {1:5, 2:5} it is 0.1.
C11_MaxFreqError ==
    /\ e_pc = "returned" =>
          /\ \A s \in SeenSenses :
                FracLeq(<<Abs(TrueCount(s) - PredCount(s)), Len(e_test)>>,
                        e_ret.max_freq_error)
          /\ \E s \in SeenSenses :
                FracEq(<<Abs(TrueCount(s) - PredCount(s)), Len(e_test)>>,
                       e_ret.max_freq_error)
    /\ FracEq(MaxFreqError(Labels12(6, 4), Labels12(5, 5)), <<1, 10>>)

\* a sense of the true labels is never predicted, and the error is neither
\* 0 nor 1
C11_Witness ==
    /\ e_pc = "returned"
    /\ \E s \in SeenSenses : TrueCount(s) > 0 /\ PredCount(s) = 0
    /\ ~FracEq(e_ret.max_freq_error, <<0, 1>>)
    /\ ~FracEq(e_ret.max_freq_error, <<1, 1>>)

\* the test examples whose recorded confidence is above the threshold
AboveThreshold ==
    {k \in 1..Len(confidences) :
        confidences[k] > ConfidenceThreshold(m_method)}

\* C12: the estimate returned by evaluate is the number of test examples
\* whose confidence is strictly greater than the model's confidence_threshold
\* divided by the number of test examples; a confidence equal to the
\* threshold is not counted.
C12_EstimateCountsAboveThreshold ==
    e_pc = "returned" =>
        /\ Len(confidences) = Len(e_test)
        /\ FracEq(e_ret.estimate, <<Cardinality(AboveThreshold), Len(e_test)>>)

\* one confidence equal to the threshold and one above it
C12_Witness ==
    /\ e_pc = "returned"
    /\ \E k \in 1..Len(confidences) :
          confidences[k] = ConfidenceThreshold(m_method)
    /\ AboveThreshold # {}

-----------------------------------------------------------------------------
(* SphericalModel and KNearestModel driven over test queries by evaluate *)

\* the training sets of the models
VoteTrainSets ==
    { <<[x |-> CtxUnknown, ans |-> "1"]>>,
      <<[x |-> CtxRiver, ans |-> "1"], [x |-> CtxMoney, ans |-> "2"]>>,
      <<[x |-> CtxRiver, ans |-> "1"], [x |-> CtxMoney, ans |-> "2"],
        [x |-> CtxLoan, ans |-> "2"]>>,
      <<[x |-> CtxMoney, ans |-> "2"], [x |-> CtxUnknown, ans |-> "1"],
        [x |-> CtxDry, ans |-> "1"], [x |-> CtxRiver, ans |-> "1"]>>,
      <<[x |-> CtxDry, ans |-> "1"], [x |-> CtxDry, ans |-> "1"],
        [x |-> CtxRiver, ans |-> "1"], [x |-> CtxMoney, ans |-> "2"],
        [x |-> CtxLoan, ans |-> "2"]>> }

\* the contexts of the test examples
VoteQueries == {CtxLoan, CtxRiver, CtxUnknown}

VoteInit ==
    /\ m_method \in {"SphericalModel", "KNearestModel"}
    /\ m_train \in VoteTrainSets
    /\ m_window \in Windows
    /\ m_query = CtxUnknown
    /\ model = NoModel
    /\ call_ret = NoRet
    /\ m_pc = "new"
    /\ e_test \in BSeq([x : VoteQueries, ans : {"1"}], MaxTest)
    /\ e_i = 1
    /\ answers = <<>>
    /\ confidences = <<>>
    /\ e_ret = NoResult
    /\ e_pc = "loop"

-----------------------------------------------------------------------------
(* Claims about SphericalModel and KNearestModel *)

\* the vector of a context under the window of the run
VecOf(x) == cv(x, m_window)

\* the training examples that have a defined vector
DefinedTrain == {k \in 1..Len(m_train) : VecOf(m_train[k].x) # None}

\* the defined training vectors of a sense, in training order
SenseVectors(a) ==
    LET IsOfSense(e) == e.ans = a /\ VecOf(e.x) # None
        kept == SelectSeq(m_train, IsOfSense)
    IN  [k \in 1..Len(kept) |-> VecOf(kept[k].x)]

\* the centroid of a sense: the mean of its defined training vectors
Centroid(a) == Mean(SenseVectors(a))

\* the sense has a centroid with a direction
HasCentroid(a) == SenseVectors(a) # <<>> /\ Centroid(a) # ZeroVec

\* the queries answered so far whose vector is defined
DefinedAnswers == {i \in 1..Len(answers) : VecOf(answers[i].x) # None}

\* C16: for a query with a defined vector SphericalModel returns a sense
\* whose centroid, the mean of the sense's defined training vectors, has the
\* maximum cosine similarity to the query vector among the senses that have
\* a centroid.
C16_SphericalPicksNearestCentroid ==
    m_method = "SphericalModel" =>
        /\ \A i \in DefinedAnswers :
              LET v == VecOf(answers[i].x)
                  r == answers[i].model_ans
              IN  /\ SenseVectors(r) # <<>>
                  /\ \A a \in SenseIds :
                        HasCentroid(a) =>
                            v_closeness(v, Centroid(a))
                                <= v_closeness(v, Centroid(r))
        /\ (e_pc = "raised" /\ e_i <= Len(e_test)
                /\ VecOf(e_test[e_i].x) # None) =>
              \A a \in SenseIds : ~HasCentroid(a)

\* two senses have centroids at different closeness to the query, the nearer
\* one is the mean of two vectors and is not the first sense of the training
\* data
C16_Witness ==
    /\ m_method = "SphericalModel"
    /\ \E i \in DefinedAnswers :
          LET v == VecOf(answers[i].x)
              r == answers[i].model_ans
          IN  /\ r # m_train[1].ans
              /\ Len(SenseVectors(r)) >= 2
              /\ \E a \in SenseIds :
                    /\ HasCentroid(a)
                    /\ v_closeness(v, Centroid(a)) < v_closeness(v, Centroid(r))

\* the gap between the best and the second-best of the closeness values
IsTopGap(cl, gap) ==
    \E i, j \in 1..Len(cl) :
        /\ i # j
        /\ gap = cl[i][2] - cl[j][2]
        /\ \A k \in 1..Len(cl) : cl[k][2] <= cl[i][2]
        /\ \A k \in 1..Len(cl) \ {i} : cl[k][2] <= cl[j][2]

\* C17: for a query with a defined vector the confidence SphericalModel
\* returns is the best centroid similarity minus the second-best one when at
\* least two senses have centroids, and 0 when fewer than two have.
C17_SphericalConfidenceIsGap ==
    (m_method = "SphericalModel" /\ m_pc = "called" /\ call_ret.st = "ok"
        /\ ~QueryUndefined) =>
        LET cl == AnsCloseness(cv(m_query, m_window), model.sense_vectors)
        IN  IF Len(cl) >= 2 THEN IsTopGap(cl, call_ret.conf)
            ELSE call_ret.conf = 0

\* the cosine similarity of the query vector v to training example k
Similarity(v, k) == v_closeness(v, VecOf(m_train[k].x))

\* T is a choice of the k_nearest training vectors most similar to v (all
\* of them when there are fewer)
IsNearest(T, v) ==
    /\ T \subseteq DefinedTrain
    /\ Cardinality(T) = Min(k_nearest, Cardinality(DefinedTrain))
    /\ \A k \in T : \A j \in DefinedTrain \ T :
           Similarity(v, j) <= Similarity(v, k)

\* the neighbours of sense a among T, and the mean of their similarities
NeighboursOf(T, a) == {k \in T : m_train[k].ans = a}

RECURSIVE SimilaritySum(_, _)
SimilaritySum(K, v) ==
    IF K = {} THEN 0
    ELSE LET k == CHOOSE j \in K : TRUE
         IN  Similarity(v, k) + SimilaritySum(K \ {k}, v)

MeanSimilarity(T, a, v) ==
    RDiv(SimilaritySum(NeighboursOf(T, a), v), Cardinality(NeighboursOf(T, a)))

\* sense r wins the vote among T: no sense has more neighbours, and no sense
\* with as many has a higher mean similarity
WinsVote(T, r, v) ==
    /\ NeighboursOf(T, r) # {}
    /\ \A a \in SenseIds :
           Cardinality(NeighboursOf(T, a)) <= Cardinality(NeighboursOf(T, r))
    /\ \A a \in SenseIds :
           Cardinality(NeighboursOf(T, a)) = Cardinality(NeighboursOf(T, r))
               => MeanSimilarity(T, a, v) <= MeanSimilarity(T, r, v)

\* C18: for a query with a defined vector KNearestModel takes the k training
\* vectors with the highest cosine similarity and returns a sense with the
\* maximum count among them, the one with the highest mean similarity among
\* the senses tied on that count; the same query on the same model always
\* gets the same sense.
C18_KNearestVote ==
    m_method = "KNearestModel" =>
        /\ \A i \in DefinedAnswers :
              \E T \in SUBSET DefinedTrain :
                  /\ IsNearest(T, VecOf(answers[i].x))
                  /\ WinsVote(T, answers[i].model_ans, VecOf(answers[i].x))
        /\ \A i, j \in 1..Len(answers) :
              answers[i].x = answers[j].x =>
                  answers[i].model_ans = answers[j].model_ans

\* more than k training vectors, the sense with the most training vectors
\* loses the vote among the k nearest; and a query asked twice
C18_Witness ==
    /\ m_method = "KNearestModel"
    /\ Cardinality(DefinedTrain) > k_nearest
    /\ Len(answers) = 2
    /\ answers[1].x = answers[2].x
    /\ 1 \in DefinedAnswers
    /\ \E a \in SenseIds :
          /\ a # answers[1].model_ans
          /\ TrainCount(a) > TrainCount(answers[1].model_ans)

\* two training vectors of different senses, one neighbour each: the sense
\* with the higher mean similarity wins although it comes second
C18_TieWitness ==
    /\ m_method = "KNearestModel"
    /\ Cardinality(DefinedTrain) = 2
    /\ \E i \in DefinedAnswers :
          /\ answers[i].model_ans # m_train[1].ans
          /\ Similarity(VecOf(answers[i].x), 1) < Similarity(VecOf(answers[i].x), 2)

-----------------------------------------------------------------------------
(* supervised.get_labeled_ctx *)

\* A line is the sequence of its tab-separated fields, the newline removed;
\* a field may be empty.

\* line.startswith('\t')
StartsWithTab(line) == Len(line) >= 2 /\ line[1] = ""

\* list(filter(None, line.strip().split('\t')))
Row(line) == SelectSeq(line, LAMBDA f : f # "")

\* str(n)
IntStr(n) ==
    CASE n = 0 -> "0" [] n = 1 -> "1" [] n = 2 -> "2" [] n = 3 -> "3"
      [] n = 4 -> "4" [] OTHER -> "5"

\* del d[key]
Del(d, key) == SelectSeq(d, LAMBDA kv : kv[1] # key)

\* the outcome of one iteration of the loop over the lines
Step(exc, senses, other, w_d) ==
    [exc |-> exc, senses |-> senses, other |-> other, w_d |-> w_d]

\* a header row: lines 54-60
HeaderRow(row, senses, other, w_d) ==
    IF Len(row) = 3
    THEN IF row[2] # row[3]
         THEN Step("AssertionError", senses, other, w_d)
         ELSE IF row[2] # "0"
              THEN Step("", Put(senses, row[2], row[1]), other, w_d)
              ELSE Step("", senses, other, w_d)
    ELSE IF Len(row) # 2
         THEN Step("ValueError", senses, other, w_d)
         ELSE IF row[2] # "0"
              THEN Step("", Put(senses, row[2], row[1]), other, w_d)
              ELSE Step("", senses, other, w_d)

\* a data row once `other` is known: lines 65-74
DataColumns(row, senses, other, w_d) ==
    IF Len(row) = 5
    THEN IF row[4] = row[5]
         THEN IF row[4] # "0" /\ row[4] # other[1]
              THEN Step("", senses, other,
                        Append(w_d, [x |-> <<row[1], row[2], row[3]>>,
                                     ans |-> row[4]]))
              ELSE Step("", senses, other, w_d)
         ELSE Step("", senses, other, w_d)
    ELSE IF Len(row) # 4
         THEN Step("ValueError", senses, other, w_d)
         ELSE IF row[4] # "0" /\ row[4] # other[1]
              THEN Step("", senses, other,
                        Append(w_d, [x |-> <<row[1], row[2], row[3]>>,
                                     ans |-> row[4]]))
              ELSE Step("", senses, other, w_d)

\* a data row: lines 62-74
DataRow(row, senses, other, w_d) ==
    IF other = None
    THEN LET o == IntStr(Len(senses))
         IN  IF ~HasKey(senses, o)
             THEN Step("KeyError", senses, <<o>>, w_d)
             ELSE DataColumns(row, Del(senses, o), <<o>>, w_d)
    ELSE DataColumns(row, senses, other, w_d)

\* the body of `for i, line in enumerate(f, 1)`
LineStep(line, senses, other, w_d) ==
    IF StartsWithTab(line)
    THEN HeaderRow(Row(line), senses, other, w_d)
    ELSE DataRow(Row(line), senses, other, w_d)

\* the sense ids written in the files
FileIds == {"0", "1", "2", "3"}

\* header rows: one or two annotator columns, or a column missing
HeaderLines ==
    {<<"", "meaning", a>> : a \in FileIds}
        \cup {<<"", "meaning", "1", "1">>, <<"", "meaning", "1", "2">>,
              <<"", "meaning">>}

\* data rows: one or two annotator columns, an empty `after` text, or a
\* column missing
DataLines ==
    {<<"before", "word", "after", a>> : a \in FileIds}
        \cup {<<"before", "word", "after", "1", "1">>,
              <<"before", "word", "after", "1", "2">>,
              <<"before", "word", "after", "3", "3">>,
              <<"before", "word", "", "1", "1">>,
              <<"before", "word", "", "1", "2">>,
              <<"before", "word", "1">>}

ParseInit ==
    /\ \E h \in BSeq(HeaderLines, MaxHeader), d \in BSeq(DataLines, MaxRows) :
          gl_lines = h \o d
    /\ gl_i = 1
    /\ gl_senses = <<>>
    /\ gl_other = None
    /\ gl_w_d = <<>>
    /\ gl_exc = ""
    /\ gl_reported = 0
    /\ gl_pc = "loop"

\* one iteration that completes (or takes `continue`)
ReadLine ==
    /\ gl_pc = "loop"
    /\ gl_i <= Len(gl_lines)
    /\ LET r == LineStep(gl_lines[gl_i], gl_senses, gl_other, gl_w_d)
       IN  /\ r.exc = ""
           /\ gl_senses' = r.senses
           /\ gl_other' = r.other
           /\ gl_w_d' = r.w_d
    /\ gl_i' = gl_i + 1
    /\ UNCHANGED <<gl_lines, gl_exc, gl_reported, gl_pc, notParse>>

\* one iteration that raises: `except ValueError` prints the line number and
\* re-raises, any other exception leaves the function directly
ReadLineRaises ==
    /\ gl_pc = "loop"
    /\ gl_i <= Len(gl_lines)
    /\ LET r == LineStep(gl_lines[gl_i], gl_senses, gl_other, gl_w_d)
       IN  /\ r.exc # ""
           /\ gl_exc' = r.exc
           /\ gl_other' = r.other
           /\ gl_reported' = IF r.exc = "ValueError" THEN gl_i ELSE 0
    /\ gl_pc' = "raised"
    /\ UNCHANGED <<gl_lines, gl_i, gl_senses, gl_w_d, notParse>>

\* return senses, w_d
ReturnLabeled ==
    /\ gl_pc = "loop"
    /\ gl_i > Len(gl_lines)
    /\ gl_pc' = "returned"
    /\ UNCHANGED <<gl_lines, gl_i, gl_senses, gl_other, gl_w_d, gl_exc,
                   gl_reported, notParse>>

ParseNext ==
    \/ ReadLine
    \/ ReadLineRaises
    \/ ReturnLabeled

-----------------------------------------------------------------------------
(* Claims about get_labeled_ctx *)

\* the ids other than '0' that the header rows of the file define
HeaderIds ==
    {gl_lines[k][3] : k \in {j \in 1..Len(gl_lines) :
                                StartsWithTab(gl_lines[j])
                                    /\ Len(gl_lines[j]) >= 3}} \ {"0"}

\* the line has the wrong number of columns, or is a header row whose two
\* annotator columns disagree, or is the first data row of a file whose
\* header defines no sense with the id str(number of header senses)
Malformed(k) ==
    LET line == gl_lines[k]
    IN  IF StartsWithTab(line)
        THEN \/ Len(Row(line)) \notin {2, 3}
             \/ Len(Row(line)) = 3 /\ Row(line)[2] # Row(line)[3]
        ELSE \/ Len(Row(line)) \notin {4, 5}
             \/ /\ \A j \in 1..(k - 1) : StartsWithTab(gl_lines[j])
                /\ IntStr(Cardinality(HeaderIds)) \notin HeaderIds

\* C13: every malformed line makes get_labeled_ctx fail with the number of
\* the offending line reported, and nothing is returned.
C13_MalformedLineReported ==
    /\ gl_pc = "returned" => \A k \in 1..Len(gl_lines) : ~Malformed(k)
    /\ gl_pc = "raised" => (Malformed(gl_i) /\ gl_reported = gl_i)

\* C14: every sense id of a returned labeled example is a key of the
\* returned sense inventory.
C14_LabelsAreInventoryKeys ==
    gl_pc = "returned" =>
        \A k \in 1..Len(gl_w_d) : HasKey(gl_senses, gl_w_d[k].ans)

\* the annotator labels of a data row as written in the file: columns 4 and
\* 5, or column 4 alone
Annotators(line) ==
    IF Len(line) = 5 THEN <<line[4], line[5]>> ELSE <<line[4]>>

\* the labels agree (or there is one annotator) and the label is neither
\* '0' nor the reserved `other` id
KeptByRule(line) ==
    LET a == Annotators(line)
    IN  /\ \A k \in 1..Len(a) : a[k] = a[1]
        /\ a[1] # "0"
        /\ gl_other # None => a[1] # gl_other[1]

\* the labels of the data rows that the rule keeps, in file order
RECURSIVE KeptLabels(_)
KeptLabels(lines) ==
    IF lines = <<>> THEN <<>>
    ELSE LET line == Head(lines)
         IN  IF ~StartsWithTab(line) /\ KeptByRule(line)
             THEN <<Annotators(line)[1]>> \o KeptLabels(Tail(lines))
             ELSE KeptLabels(Tail(lines))

\* C15: a data row is kept as a labeled example if and only if its annotator
\* labels agree (or there is a single annotator) and the label is neither '0'
\* nor the reserved `other` id; a row with disagreeing annotators is skipped
\* without an error.
C15_KeptIffAgreedAndDefined ==
    gl_pc = "returned" =>
        [k \in 1..Len(gl_w_d) |-> gl_w_d[k].ans] = KeptLabels(gl_lines)

-----------------------------------------------------------------------------
(* cluster_methods: SKMeansADInit, SKMeansADMapping, get_ad_centers *)

\* int(s) for a sense id
StrInt(str) ==
    CASE str = "1" -> 1 [] str = "2" -> 2 [] str = "3" -> 3 [] OTHER -> 0

\* cluster_methods.context_vector(word, ctx, weights) on
\* ctx = [w for w in lemmatize_s(ctx.lower()) if word_re.match(w)], without
\* a weight file
AdContextVector(word, ctx) ==
    context_vector(SelectWords(lemmatize_s(ctx), word), TRUE, NoWeights)

\* the loop over meaning['contexts']: center is None, or the sum of the
\* defined vectors
RECURSIVE CenterSum(_, _)
CenterSum(word, contexts) ==
    IF contexts = <<>> THEN None
    ELSE LET center == CenterSum(word, SubSeq(contexts, 1, Len(contexts) - 1))
             vector == AdContextVector(word, contexts[Len(contexts)])
         IN  IF vector = None THEN center
             ELSE IF center = None THEN vector
             ELSE VAdd(center, vector)

\* get_ad_centers(word, ad_descr): unitvec(center) for every meaning with a
\* defined context vector, keyed by meaning['id']
RECURSIVE get_ad_centers(_, _)
get_ad_centers(word, meanings) ==
    IF meanings = <<>> THEN <<>>
    ELSE LET d       == get_ad_centers(word, SubSeq(meanings, 1, Len(meanings) - 1))
             meaning == meanings[Len(meanings)]
             center  == CenterSum(word, meaning.contexts)
         IN  IF center # None THEN Put(d, meaning.id, unitvec(center)) ELSE d

\* {i: int(meaning['id']) for i, meaning in enumerate(meanings)}
EnumMapping(meanings) ==
    [k \in 1..Len(meanings) |-> <<k - 1, StrInt(meanings[k].id)>>]

\* the meaning nearest to a cluster centre, whatever the closeness
FirstMeaning(center, centers) == StrInt(centers[1][1])

\* max(((int(mid), v_closeness(center, m_center))
\*      for mid, m_center in ad_centers.iteritems()), key=itemgetter(1))[0]
NearestMeaning(center, centers) ==
    PyMax([k \in 1..Len(centers) |->
              <<StrInt(centers[k][1]), v_closeness(center, centers[k][2])>>])[1]

\* the target word, the example contexts of the dictionary, and the centres
\* spherical k-means may end at
AdWord == "bank"

AdContexts == {<<"rivers", ",", "bank">>, <<"money", "loan">>, <<"qwerty">>}

\* the lists of example contexts a meaning may carry
AdContextLists ==
    {<<>>} \cup {<<c>> : c \in AdContexts}
        \cup {<<<<"rivers", ",", "bank">>, <<"money", "loan">>>>,
              <<<<"qwerty">>, <<"rivers", ",", "bank">>>>}

CentreValues == {unitvec(<<SCALE, 0>>), unitvec(<<0, SCALE>>),
                 unitvec(<<-SCALE, SCALE>>)}

\* the meanings of a dictionary entry, numbered from 1
Meanings(n) ==
    {ms \in [1..n -> [id : {"1", "2", "3"},
                      contexts : AdContextLists]] :
        \A k \in 1..n : ms[k].id = IntStr(k)}

ClusterInit ==
    /\ cl_method \in {"SKMeansADInit", "SKMeansADMapping"}
    /\ cl_n_senses \in 1..MaxClusters
    /\ \E n \in 1..MaxSenses : ad_descr \in Meanings(n)
    /\ ad_centers = <<>>
    /\ cl_centers = <<>>
    /\ cl_centres = <<>>
    /\ cl_mapping = <<>>
    /\ cl_pc = "start"

\* SKMeansADInit.cluster: every meaning has a centre; k-means starts at the
\* seeds and ends with as many centres
ADInitCluster ==
    /\ cl_pc = "start"
    /\ cl_method = "SKMeansADInit"
    /\ LET c == get_ad_centers(AdWord, ad_descr)
       IN  /\ \A k \in 1..Len(ad_descr) : HasKey(c, ad_descr[k].id)
           /\ ad_centers' = c
           /\ cl_centers' = [k \in 1..Len(ad_descr) |-> Get(c, ad_descr[k].id)]
    /\ cl_mapping' = EnumMapping(ad_descr)
    /\ cl_centres' \in [1..Len(ad_descr) -> CentreValues]
    /\ cl_pc' = "done"
    /\ UNCHANGED <<cl_method, cl_n_senses, ad_descr, notCluster>>

\* SKMeansADInit.cluster: ad_centers[m['id']] raises KeyError for a meaning
\* without a centre, after self.mapping was set
ADInitClusterRaises ==
    /\ cl_pc = "start"
    /\ cl_method = "SKMeansADInit"
    /\ LET c == get_ad_centers(AdWord, ad_descr)
       IN  /\ \E k \in 1..Len(ad_descr) : ~HasKey(c, ad_descr[k].id)
           /\ ad_centers' = c
    /\ cl_mapping' = EnumMapping(ad_descr)
    /\ cl_pc' = "raised"
    /\ UNCHANGED <<cl_method, cl_n_senses, ad_descr, cl_centers, cl_centres,
                   notCluster>>

\* SKMeansADMapping.cluster: k-means with k = n_senses, then every centre is
\* mapped to a meaning
ADMappingCluster ==
    /\ cl_pc = "start"
    /\ cl_method = "SKMeansADMapping"
    /\ LET c == get_ad_centers(AdWord, ad_descr)
       IN  /\ c # <<>>
           /\ ad_centers' = c
           /\ \E centres \in [1..cl_n_senses -> CentreValues] :
                 /\ cl_centres' = centres
                 /\ cl_mapping' =
                        [k \in 1..Len(centres) |->
                            <<k - 1, NearestMeaning(centres[k], c)>>]
    /\ cl_pc' = "done"
    /\ UNCHANGED <<cl_method, cl_n_senses, ad_descr, cl_centers, notCluster>>

\* SKMeansADMapping.cluster: max() of an empty sequence raises ValueError
\* when no meaning has a centre
ADMappingClusterRaises ==
    /\ cl_pc = "start"
    /\ cl_method = "SKMeansADMapping"
    /\ get_ad_centers(AdWord, ad_descr) = <<>>
    /\ ad_centers' = <<>>
    /\ cl_centres' \in [1..cl_n_senses -> CentreValues]
    /\ cl_pc' = "raised"
    /\ UNCHANGED <<cl_method, cl_n_senses, ad_descr, cl_centers, cl_mapping,
                   notCluster>>

ClusterNext ==
    \/ ADInitCluster
    \/ ADInitClusterRaises
    \/ ADMappingCluster
    \/ ADMappingClusterRaises

-----------------------------------------------------------------------------
(* Claims about the dictionary-anchored clusterings *)

\* the defined vectors of the example contexts of meaning k
ExampleVectors(k) ==
    LET vs == [j \in 1..Len(ad_descr[k].contexts) |->
                  AdContextVector(AdWord, ad_descr[k].contexts[j])]
        IsDefined(v) == v # None
    IN  SelectSeq(vs, IsDefined)

\* the centroid of the example contexts of meaning k
ExampleCentroid(k) == unitvec(VSum(ExampleVectors(k)))

\* the meanings that have an example context with a defined vector
WithExamples == {k \in 1..Len(ad_descr) : ExampleVectors(k) # <<>>}

\* the sense centroids are pairwise well separated: cosine below 0.5
WellSeparated ==
    \A j, k \in WithExamples :
        j # k => 2 * v_closeness(ExampleCentroid(j), ExampleCentroid(k)) < SCALE

\* C19: after SKMeansADInit.cluster there are as many clusters as dictionary
\* senses, the mapping is a bijection between cluster ids and sense ids, and
\* cluster i is seeded at the centroid of the example contexts of its sense;
\* for every well separated inventory, one with a sense that has no example
\* context with a defined vector included.
C19_SeededMappingIsBijection ==
    (cl_method = "SKMeansADInit" /\ WellSeparated) =>
        /\ cl_pc # "raised"
        /\ cl_pc = "done" =>
              /\ Len(cl_centres) = Len(ad_descr)
              /\ Len(cl_centers) = Len(ad_descr)
              /\ Len(cl_mapping) = Len(ad_descr)
              /\ \A k \in 1..Len(ad_descr) :
                    \E i \in 1..Len(cl_mapping) :
                        /\ cl_mapping[i][1] = i - 1
                        /\ cl_mapping[i][2] = StrInt(ad_descr[k].id)
                        /\ cl_centers[i] = ExampleCentroid(k)
                        /\ \A j \in 1..Len(cl_mapping) :
                              cl_mapping[j][2] = cl_mapping[i][2] => j = i

\* C20: after SKMeansADMapping.cluster every cluster id has an entry in the
\* mapping, and the entry is the id of the dictionary sense whose
\* example-context centroid is closest (cosine) to the cluster's centroid.
C20_ClustersMappedToNearestSense ==
    (cl_method = "SKMeansADMapping" /\ cl_pc = "done") =>
        /\ Len(cl_centres) = cl_n_senses
        /\ \A ci \in 0..(Len(cl_centres) - 1) :
              /\ HasKey(cl_mapping, ci)
              /\ \E k \in WithExamples :
                    /\ Get(cl_mapping, ci) = StrInt(ad_descr[k].id)
                    /\ \A j \in WithExamples :
                          v_closeness(cl_centres[ci + 1], ExampleCentroid(j))
                            <= v_closeness(cl_centres[ci + 1], ExampleCentroid(k))

\* two clusters, two senses with centroids: a cluster is mapped to the
\* second sense, which is strictly closer to it than the first
C20_Witness ==
    /\ cl_method = "SKMeansADMapping"
    /\ cl_pc = "done"
    /\ Len(cl_centres) = 2
    /\ WithExamples = {1, 2}
    /\ \E ci \in 0..1 :
          /\ Get(cl_mapping, ci) = 2
          /\ v_closeness(cl_centres[ci + 1], ExampleCentroid(1))
                < v_closeness(cl_centres[ci + 1], ExampleCentroid(2))

\* C21: the mapping of the post-hoc mapping step is injective whenever the
\* number of clusters is at most the number of dictionary senses that have
\* a centroid: no two clusters map to the same sense id.
C21_MappingInjectiveWhenPossible ==
    (cl_method = "SKMeansADMapping" /\ cl_pc = "done"
        /\ \A i, j \in 1..Len(cl_centres) :
              i # j => cl_centres[i] # cl_centres[j]
        /\ WellSeparated
        /\ Len(cl_centres) <= Cardinality(WithExamples)) =>
        \A i, j \in 1..Len(cl_mapping) :
            cl_mapping[i][2] = cl_mapping[j][2] => i = j

-----------------------------------------------------------------------------
(* cluster.py: clustering the contexts of a context-vector file *)

\* the partitions classifier.cluster() may return for n contexts and k
\* clusters: the cluster id of every context (k-means starts from a random
\* initialisation)
Partitions(n, k) == [1..n -> 0..(k - 1)]

\* the file holds the word and its context vectors
CacheInit ==
    /\ \E n \in 1..MaxContexts :
          ck_file = [word |-> AdWord, context_vectors |-> n]
    /\ ck_rebuild = FALSE
    /\ ck_runs = 0
    /\ ck_computed = 0
    /\ ck_clusters = <<>>
    /\ ck_previous = <<>>

\* one run of ./cluster.py context_vectors.pkl [--rebuild]: _cluster loads
\* the file, builds the classifier and calls classifier.cluster(); rebuild
\* is taken by **_ and not read, and nothing is saved
RunCluster ==
    /\ ck_runs < MaxClusterRuns
    /\ ck_rebuild' \in BOOLEAN
    /\ \E k \in 1..MaxClusters :
          ck_clusters' \in Partitions(ck_file.context_vectors, k)
    /\ ck_computed' = ck_computed + 1
    /\ ck_previous' = ck_clusters
    /\ ck_runs' = ck_runs + 1
    /\ UNCHANGED <<ck_file, notCache>>

CacheNext == RunCluster

\* C22: a second run on the same file without the rebuild flag does not
\* recompute the clustering and yields the identical partition; the
\* clustering is recomputed only when rebuild is requested.
C22_ClusteringCached ==
    (ck_runs = 2 /\ ~ck_rebuild) =>
        /\ ck_computed = 1
        /\ ck_clusters = ck_previous

-----------------------------------------------------------------------------
(* rs/tools/build_weights.py: write_cdict *)

min_count == 4

\* the words of the contexts file; "qwerty" is not in the word2vec vocabulary
CdictWords == {"bank", "river", "qwerty"}

KnownWords == {"bank", "river"}

\* the lines of a contexts file, tokenized by line.strip().split()
CdictLines ==
    {<<"bank", "bank">>, <<"bank", "bank", "river">>, <<"bank">>,
     <<"river", "river", "river", "river">>,
     <<"qwerty", "qwerty", "qwerty", "qwerty">>}

\* word2vec_server.count: model.vocab[w].count, None on KeyError; a word
\* of the vocabulary has been counted at least once
CountValues == {1, 50}

\* word2vec_server._total_count: the sum of the counts of the vocabulary
w2v_total_count(global) == SumSeq([k \in 1..2 |-> global[<<"bank", "river">>[k]]])

w2v_count(global, w) == IF w \in DOMAIN global THEN global[w] ELSE None

\* global_counts.get(w) is not None
HasCount(global, w) == w \in DOMAIN global

\* 1000 * e ** (k / 2) for k = 0..10
ExpHalf ==
    <<1000, 1649, 2718, 4482, 7389, 12182, 20086, 33115, 54598, 90017,
      148413>>

\* the largest k with e ** (k / 2) <= num / den (num >= den > 0)
HalfSteps(num, den) ==
    CHOOSE k \in 0..(Len(ExpHalf) - 1) :
        /\ num * 1000 >= den * ExpHalf[k + 1]
        /\ k + 1 < Len(ExpHalf) => num * 1000 < den * ExpHalf[k + 2]

\* math.log(num / den) in fixed point, rounded down to a half (num, den > 0)
Log(num, den) ==
    IF num >= den THEN (HalfSteps(num, den) * SCALE) \div 2
    ELSE -(((HalfSteps(den, num) + 1) * SCALE) \div 2)

\* weight = max(0, math.log(c / pred_count)), with
\* pred_count = gc * (contexts_count / total_count)
WeightUnclamped(c, gc, contexts_count, total_count) ==
    Log(c * total_count, gc * contexts_count)

Weight(c, gc, contexts_count, total_count) ==
    Max(0, WeightUnclamped(c, gc, contexts_count, total_count))

\* for w in line.strip().split(): counts[w] += 1
RECURSIVE CountWords(_, _)
CountWords(counts, line) ==
    IF line = <<>> THEN counts
    ELSE CountWords(
             Put(counts, Head(line),
                 IF HasKey(counts, Head(line))
                 THEN Get(counts, Head(line)) + 1 ELSE 1),
             Tail(line))

\* the division of line 49 or of line 58 is by zero
DividesByZero(kept, contexts_count, total_count) ==
    kept # <<>> /\
        (total_count = 0 \/
         \E k \in 1..Len(kept) : kept[k][3] * contexts_count = 0)

\* counts = [(w, c, global_counts[w]) for w, c in counts.items()
\*           if c >= min_count and global_counts.get(w) is not None]
RECURSIVE KeptCounts(_, _)
KeptCounts(counts, global) ==
    IF counts = <<>> THEN <<>>
    ELSE LET w == Head(counts)[1]
             c == Head(counts)[2]
         IN  (IF c >= min_count /\ HasCount(global, w)
              THEN <<<<w, c, w2v_count(global, w)>>>> ELSE <<>>)
                 \o KeptCounts(Tail(counts), global)

\* sorted(counts, key=lambda x: x[1], reverse=True)
SortedByCount(kept) ==
    LET order == SortedDesc([k \in 1..Len(kept) |-> <<k, kept[k][2]>>])
    IN  [k \in 1..Len(kept) |-> kept[order[k][1]]]

WeightInit ==
    /\ wc_lines \in BSeq(CdictLines, MaxLines)
    /\ wc_global \in [KnownWords -> CountValues]
    /\ wc_i = 1
    /\ wc_seen = {}
    /\ wc_counts = <<>>
    /\ wc_out = <<>>
    /\ wc_exc = ""
    /\ wc_pc = "read"

\* one iteration of `for line in in_f`
WCReadLine ==
    /\ wc_pc = "read"
    /\ wc_i <= Len(wc_lines)
    /\ LET line == wc_lines[wc_i]
       IN  IF line \in wc_seen
           THEN UNCHANGED <<wc_seen, wc_counts>>
           ELSE /\ wc_seen' = wc_seen \cup {line}
                /\ wc_counts' = CountWords(wc_counts, line)
    /\ wc_i' = wc_i + 1
    /\ UNCHANGED <<wc_lines, wc_global, wc_out, wc_exc, wc_pc, notWeight>>

\* after the loop: the filter, the sort and the output lines
WCWrite ==
    /\ wc_pc = "read"
    /\ wc_i > Len(wc_lines)
    /\ LET total_count    == w2v_total_count(wc_global)
           contexts_count == SumSeq([k \in 1..Len(wc_counts) |->
                                        wc_counts[k][2]])
           kept           == SortedByCount(KeptCounts(wc_counts, wc_global))
       IN  IF DividesByZero(kept, contexts_count, total_count)
           THEN /\ wc_exc' = "ZeroDivisionError"
                /\ wc_out' = <<>>
           ELSE /\ wc_exc' = ""
                /\ wc_out' =
                      [k \in 1..Len(kept) |->
                          <<kept[k][1],
                            Weight(kept[k][2], kept[k][3], contexts_count,
                                   total_count)>>]
    /\ wc_pc' = "done"
    /\ UNCHANGED <<wc_lines, wc_global, wc_i, wc_seen, wc_counts, notWeight>>

WeightNext == WCReadLine \/ WCWrite

-----------------------------------------------------------------------------
(* Claims about write_cdict *)

\* the occurrences of w in the distinct lines of the file
LocalCount(w) ==
    SumSeq([k \in 1..Len(wc_lines) |->
               IF \E j \in 1..(k - 1) : wc_lines[j] = wc_lines[k] THEN 0
               ELSE Cardinality({n \in 1..Len(wc_lines[k]) :
                                    wc_lines[k][n] = w})])

LocalTotal == SumSeq([k \in 1..3 |-> LocalCount(<<"bank", "river", "qwerty">>[k])])

\* C23: every weight written is non-negative and is max(0, log(local /
\* predicted)) with predicted = global count x (local tokens / corpus
\* tokens): it is positive only when the local count exceeds the predicted
\* one; a word has an entry only if its count over the distinct lines is at
\* least 4 and its global count is known; and no division by zero occurs.
C23_WeightsNonNegative ==
    wc_pc = "done" =>
        /\ wc_exc = ""
        /\ \A k \in 1..Len(wc_out) :
              LET w  == wc_out[k][1]
                  gc == wc_global[w]
              IN  /\ w \in KnownWords
                  /\ LocalCount(w) >= 4
                  /\ wc_out[k][2] >= 0
                  /\ wc_out[k][2] > 0 =>
                        LocalCount(w) * w2v_total_count(wc_global)
                            > gc * LocalTotal
                  /\ wc_out[k][2] =
                        Max(0, Log(LocalCount(w) * w2v_total_count(wc_global),
                                   gc * LocalTotal))

\* a weight 0 that the clamp produced from a negative logarithm, from a file
\* with a repeated line
C23_Witness ==
    /\ wc_pc = "done"
    /\ \E j, k \in 1..Len(wc_lines) : j # k /\ wc_lines[j] = wc_lines[k]
    /\ \E k \in 1..Len(wc_out) :
          /\ wc_out[k][2] = 0
          /\ LocalCount(wc_out[k][1]) * w2v_total_count(wc_global)
                < wc_global[wc_out[k][1]] * LocalTotal

-----------------------------------------------------------------------------
(* supervised.WordsOrderMixin.cv *)

OrderTokens == {"river", "the", "qwerty", "banks"}

\* w_vectors of context_vector(words, ...): the embedding of every word,
\* None for an unknown word
WVectors(words) == w2v_vecs(words)

\* w_weights of context_vector(words, ...): the weight of every word, 0 for
\* an excluded stop-word
WWeights(words, excl_stopwords, weights) ==
    [k \in 1..Len(words) |->
        IF excl_stopwords /\ words[k] \in STOPWORDS THEN 0
        ELSE WeightOf(weights, words[k])]

\* [pad] * n: empty for n <= 0
Pads(n) == [k \in 1..Max(n, 0) |-> ZeroVec]

\* before[-window:], where -0 is 0
LastWindow(s, window) == IF window = 0 THEN s ELSE LastN(s, window)

\* WordsOrderMixin.cv(ctx)
OrderCv(ctx, window) ==
    LET word      == lemmatize_s(<<ctx.word>>)[1]
        before    == LastWindow(get_words(ctx.before, word), window)
        after     == FirstN(get_words(ctx.after, word), window)
        pad_left  == window - Len(before)
        pad_right == window - Len(after)
        w_vectors == WVectors(before \o after)
        w_weights == WWeights(before \o after, TRUE, NoWeights)
        vectors   == [k \in 1..Len(w_vectors) |->
                         IF w_vectors[k] # None
                         THEN VMul(w_vectors[k], w_weights[k]) ELSE ZeroVec]
    IN  IF \A k \in 1..Len(w_vectors) : w_vectors[k] = None THEN None
        ELSE Flatten(Pads(pad_left) \o vectors \o Pads(pad_right))

OrderInit ==
    /\ oc_before \in BSeq(OrderTokens, MaxSide)
    /\ oc_after \in BSeq(OrderTokens, MaxSide)
    /\ oc_window \in 1..MaxWindow
    /\ oc_ret = None
    /\ oc_pc = "call"

OrderCvCall ==
    /\ oc_pc = "call"
    /\ oc_ret' = OrderCv(Ctx(oc_before, oc_after), oc_window)
    /\ oc_pc' = "done"
    /\ UNCHANGED <<oc_before, oc_after, oc_window, notOrder>>

OrderNext == OrderCvCall

\* the words of the context inside the window
OrderWords ==
    LET word == lemmatize_s(<<"bank">>)[1]
    IN  LastN(get_words(oc_before, word), oc_window)
            \o FirstN(get_words(oc_after, word), oc_window)

\* C25: for every context with at least one known embedding, the vector of
\* WordsOrderMixin.cv has the fixed length window-length x embedding
\* dimension, whatever the number of tokens before and after the word, of
\* stop-words and of tokens without an embedding.
C25_OrderVectorLength ==
    (oc_pc = "done"
        /\ \E k \in 1..Len(OrderWords) : w2v_vec(OrderWords[k]) # None) =>
        /\ oc_ret # None
        /\ Len(oc_ret) = oc_window * Dim

\* the length the code produces: both sides of the word are padded to the
\* window
OrderLengthIsTwoWindows ==
    (oc_pc = "done" /\ oc_ret # None) => Len(oc_ret) = 2 * oc_window * Dim

-----------------------------------------------------------------------------
(* utils.memoize around lemmatize_s *)

\* the texts lemmatize_s is called with
Texts == {<<"banks">>, <<"the", "rivers">>, <<"money", ",", "loan">>}

MemoInit ==
    /\ mz_cache = <<>>
    /\ mz_invoked = <<>>
    /\ mz_ret = None
    /\ mz_mutations = 0
    /\ mz_pc = "ready"

\* wrapper(*args): the cached object if there is one, else the result of
\* func, stored and returned
MemoCall ==
    /\ mz_pc # "idle"
    /\ \E s \in Texts :
          IF HasKey(mz_cache, s)
          THEN /\ mz_ret' = <<s, Get(mz_cache, s)>>
               /\ UNCHANGED <<mz_cache, mz_invoked>>
          ELSE LET result == lemmatize_s(s)
               IN  /\ mz_cache' = Put(mz_cache, s, result)
                   /\ mz_invoked' = Append(mz_invoked, s)
                   /\ mz_ret' = <<s, result>>
    /\ mz_pc' = "returned"
    /\ UNCHANGED <<mz_mutations, notMemo>>

\* the caller changes the list it was given (result.pop() or
\* result.append(w)); the list is the object held in cache
CallerMutates ==
    /\ mz_pc \in {"returned", "mutated"}
    /\ mz_mutations < MaxMutations
    /\ \E changed \in
            {Append(mz_ret[2], "x")} \cup
            (IF mz_ret[2] = <<>> THEN {}
             ELSE {SubSeq(mz_ret[2], 1, Len(mz_ret[2]) - 1)}) :
          /\ mz_ret' = <<mz_ret[1], changed>>
          /\ mz_cache' = Put(mz_cache, mz_ret[1], changed)
    /\ mz_mutations' = mz_mutations + 1
    /\ mz_pc' = "mutated"
    /\ UNCHANGED <<mz_invoked, notMemo>>

MemoNext == MemoCall \/ CallerMutates

\* C26: the memoized lemmatizer is observationally equal to the unmemoized
\* one: a call returns what the underlying lemmatizer gives for its
\* argument, whatever callers did to lists returned before; the underlying
\* lemmatizer runs at most once per distinct string; and a string it ran on
\* keeps its cache entry.
C26_MemoizedEqualsUnmemoized ==
    /\ mz_pc = "returned" => mz_ret[2] = lemmatize_s(mz_ret[1])
    /\ \A j, k \in 1..Len(mz_invoked) :
          mz_invoked[j] = mz_invoked[k] => j = k
    /\ \A k \in 1..Len(mz_invoked) : HasKey(mz_cache, mz_invoked[k])

\* the part of C26 that the code keeps: one run per string, no eviction
MemoRunsOncePerString ==
    /\ \A j, k \in 1..Len(mz_invoked) :
          mz_invoked[j] = mz_invoked[k] => j = k
    /\ \A k \in 1..Len(mz_invoked) : HasKey(mz_cache, mz_invoked[k])
    /\ (mz_pc = "returned" /\ mz_mutations = 0) =>
          mz_ret[2] = lemmatize_s(mz_ret[1])

\* C28: for every classifier strategy and every non-empty training set, the
\* dominant sense of the model is a sense with the maximum number of
\* training examples, each labeled example counted once.
C28_DominantSenseHasMostExamples ==
    (m_pc = "built" /\ m_train # <<>> /\ model.has_dominant) =>
        \A s \in SenseIds : TrainCount(s) <= TrainCount(model.dominant_sense)

\* C29: evaluate(model, test_data) on a non-empty test set completes and
\* returns an EvaluationResult for a model of every classifier strategy:
\* the strategy provides the confidence threshold evaluate reads and accepts
\* the call evaluate makes. Stated for the runs in which every call of the
\* loop returned its pair.
C29_EvaluateCompletesForEveryStrategy ==
    (m_pc = "built" /\ e_test # <<>> /\ e_i > Len(e_test) /\ e_pc # "loop") =>
        e_pc = "returned"

\* every answer, wrong or not
AllAnswers(ans_list) == ans_list

\* [(x, ans, model_ans) for x, ans, model_ans in answers if ans != model_ans]
RECURSIVE get_errors(_)
get_errors(ans_list) ==
    IF ans_list = <<>> THEN <<>>
    ELSE (IF Head(ans_list).ans # Head(ans_list).model_ans
          THEN <<Head(ans_list)>> ELSE <<>>) \o get_errors(Tail(ans_list))

\* C30: for every model and every non-empty test set, the result of
\* evaluate has max frequency error <= 1 - accuracy; the answers list has
\* one (context, true sense, predicted sense) entry per test example, in
\* test order; and get_errors of that list has (1 - accuracy) x |test|
\* entries, every one with the true sense different from the predicted one.
C30_ErrorsBoundFrequencyError ==
    (e_pc = "returned" /\ e_test # <<>>) =>
        LET acc    == e_ret.accuracy
            errors == get_errors(e_ret.answers)
        IN  /\ FracLeq(e_ret.max_freq_error, <<acc[2] - acc[1], acc[2]>>)
            /\ Len(e_ret.answers) = Len(e_test)
            /\ \A k \in 1..Len(e_test) :
                  /\ e_ret.answers[k].x = e_test[k].x
                  /\ e_ret.answers[k].ans = e_test[k].ans
            /\ Len(errors) * acc[2] = (acc[2] - acc[1]) * Len(e_test)
            /\ \A k \in 1..Len(errors) : errors[k].ans # errors[k].model_ans

\* a result with right and wrong answers and a max frequency error above 0
C30_Witness ==
    /\ e_pc = "returned"
    /\ Len(e_test) >= 2
    /\ \E k \in 1..Len(e_test) :
          e_ret.answers[k].ans = e_ret.answers[k].model_ans
    /\ get_errors(e_ret.answers) # <<>>
    /\ ~FracEq(e_ret.max_freq_error, <<0, 1>>)

\* a fully correct prediction list: the max frequency error is 0
C30_AllCorrectWitness ==
    /\ e_pc = "returned"
    /\ Len(e_test) >= 2
    /\ get_errors(e_ret.answers) = <<>>
    /\ FracEq(e_ret.max_freq_error, <<0, 1>>)

-----------------------------------------------------------------------------
(* supervised.get_train_accuracy and get_mfs_baseline *)

\* n_correct / len(self.train_data), 0 without training data; the model is
\* called without confidence and answers as it does with it
get_train_accuracy(m, train) ==
    IF train = <<>> THEN <<0, 1>>
    ELSE TrueDiv(Cardinality({k \in 1..Len(train) :
                                 train[k].ans = Call(m, train[k].x, 0).ans}),
                 Len(train))

\* float(max(sense_freq.values())) / len(labeled_data)
get_mfs_baseline(labeled_data) ==
    LET sense_freq == ExamplesOf(labeled_data, FALSE)
    IN  TrueDiv(PyMax([k \in 1..Len(sense_freq) |->
                          <<sense_freq[k][1], Len(sense_freq[k][2])>>])[2],
                Len(labeled_data))

TrainContexts == {CtxRiver, CtxMoney, CtxUnknown}

TrainInit ==
    /\ m_method = "SphericalModel"
    /\ m_train \in BSeq(Labeled(TrainContexts), MaxTrainAcc)
    /\ m_window \in Windows
    /\ m_query = CtxUnknown
    /\ model = NoModel
    /\ call_ret = NoRet
    /\ m_pc = "new"
    /\ ta_accuracy = <<0, 1>>
    /\ ta_baseline = <<0, 1>>
    /\ ta_pc = "ready"

\* model.get_train_accuracy() and get_mfs_baseline(train_data), as main
\* takes them for one word
GetTrainAccuracy ==
    /\ m_pc = "built"
    /\ ta_pc = "ready"
    /\ IF \E k \in 1..Len(m_train) : Call(model, m_train[k].x, 0).st # "ok"
       THEN ta_pc' = "raised" /\ UNCHANGED <<ta_accuracy, ta_baseline>>
       ELSE /\ ta_accuracy' = get_train_accuracy(model, m_train)
            /\ ta_baseline' = IF m_train = <<>> THEN <<0, 1>>
                              ELSE get_mfs_baseline(m_train)
            /\ ta_pc' = "done"
    /\ UNCHANGED notTrain

TrainNext == ConstructModel \/ GetTrainAccuracy

\* C27: for every non-empty training set, the accuracy of a SphericalModel
\* on its own training set is at least the majority-sense baseline of that
\* set.
C27_TrainAccuracyAtLeastBaseline ==
    (ta_pc \in {"done", "raised"} /\ m_train # <<>>) =>
        /\ ta_pc = "done"
        /\ FracLeq(ta_baseline, ta_accuracy)

-----------------------------------------------------------------------------
(* Specifications *)

CVIdle ==
    /\ cv_words = <<>>
    /\ cv_excl = TRUE
    /\ cv_weights = NoWeights
    /\ cv_i = 1
    /\ v_weights = <<>>
    /\ cv_ret = None
    /\ cv_pc = "idle"
    /\ cv_file = [exists |-> FALSE, tab |-> <<>>]
    /\ cv_warned = FALSE

SplitIdle ==
    /\ file_w_d = <<>>
    /\ arg_n_train = None
    /\ arg_test_ratio = None
    /\ rng = 0
    /\ run_i = 0
    /\ proc = 0
    /\ split_counts = CountsOf(<<>>)
    /\ test_data = <<>>
    /\ train_data = <<>>
    /\ first_split = <<>>
    /\ s_pc = "idle"

ModelIdle ==
    /\ m_method = ""
    /\ m_train = <<>>
    /\ m_window = 0
    /\ m_query = CtxUnknown
    /\ model = NoModel
    /\ call_ret = NoRet
    /\ m_pc = "idle"

EvalIdle ==
    /\ e_test = <<>>
    /\ e_i = 1
    /\ answers = <<>>
    /\ confidences = <<>>
    /\ e_ret = NoResult
    /\ e_pc = "idle"

ParseIdle ==
    /\ gl_lines = <<>>
    /\ gl_i = 1
    /\ gl_senses = <<>>
    /\ gl_other = None
    /\ gl_w_d = <<>>
    /\ gl_exc = ""
    /\ gl_reported = 0
    /\ gl_pc = "idle"

TrainIdle ==
    /\ ta_accuracy = <<0, 1>>
    /\ ta_baseline = <<0, 1>>
    /\ ta_pc = "idle"

MemoIdle ==
    /\ mz_cache = <<>>
    /\ mz_invoked = <<>>
    /\ mz_ret = None
    /\ mz_mutations = 0
    /\ mz_pc = "idle"

OrderIdle ==
    /\ oc_before = <<>>
    /\ oc_after = <<>>
    /\ oc_window = 0
    /\ oc_ret = None
    /\ oc_pc = "idle"

WeightIdle ==
    /\ wc_lines = <<>>
    /\ wc_global = <<>>
    /\ wc_i = 1
    /\ wc_seen = {}
    /\ wc_counts = <<>>
    /\ wc_out = <<>>
    /\ wc_exc = ""
    /\ wc_pc = "idle"

CacheIdle ==
    /\ ck_file = <<>>
    /\ ck_rebuild = FALSE
    /\ ck_runs = 0
    /\ ck_computed = 0
    /\ ck_clusters = <<>>
    /\ ck_previous = <<>>

ClusterIdle ==
    /\ cl_method = ""
    /\ cl_n_senses = 0
    /\ ad_descr = <<>>
    /\ ad_centers = <<>>
    /\ cl_centers = <<>>
    /\ cl_centres = <<>>
    /\ cl_mapping = <<>>
    /\ cl_pc = "idle"

\* calls of context_vector
InitCV == CVInit /\ SplitIdle /\ ModelIdle /\ EvalIdle /\ ParseIdle
    /\ ClusterIdle
    /\ CacheIdle
    /\ WeightIdle
    /\ OrderIdle
    /\ MemoIdle
    /\ TrainIdle

SpecCV == InitCV /\ [][CVNext]_vars

\* runs of main over one labeled file
InitSplit == SplitInit /\ CVIdle /\ ModelIdle /\ EvalIdle /\ ParseIdle
    /\ ClusterIdle
    /\ CacheIdle
    /\ WeightIdle
    /\ OrderIdle
    /\ MemoIdle
    /\ TrainIdle

SpecSplit == InitSplit /\ [][SplitNext]_vars

\* a model of one class is built and queried once
InitModel == ModelInit /\ CVIdle /\ SplitIdle /\ EvalIdle /\ ParseIdle
    /\ ClusterIdle
    /\ CacheIdle
    /\ WeightIdle
    /\ OrderIdle
    /\ MemoIdle
    /\ TrainIdle

SpecModel == InitModel /\ [][ModelNext]_vars

\* a model of one class is built and evaluated on test data
InitEval == EvalInit /\ CVIdle /\ SplitIdle /\ ParseIdle /\ ClusterIdle
    /\ CacheIdle
    /\ WeightIdle
    /\ OrderIdle
    /\ MemoIdle
    /\ TrainIdle

SpecEval == InitEval /\ [][EvalNext]_vars

\* get_labeled_ctx reads one labeled-data file
InitParse == ParseInit /\ CVIdle /\ SplitIdle /\ ModelIdle /\ EvalIdle
    /\ ClusterIdle
    /\ CacheIdle
    /\ WeightIdle
    /\ OrderIdle
    /\ MemoIdle
    /\ TrainIdle

SpecParse == InitParse /\ [][ParseNext]_vars

\* a spherical or k-nearest model is built and driven over test queries
InitVote == VoteInit /\ CVIdle /\ SplitIdle /\ ParseIdle /\ ClusterIdle
    /\ CacheIdle
    /\ WeightIdle
    /\ OrderIdle
    /\ MemoIdle
    /\ TrainIdle

SpecVote == InitVote /\ [][EvalNext]_vars

\* a dictionary-anchored clustering of the contexts of one word
InitCluster ==
    ClusterInit /\ CVIdle /\ SplitIdle /\ ModelIdle /\ EvalIdle /\ ParseIdle
    /\ CacheIdle
    /\ WeightIdle
    /\ OrderIdle
    /\ MemoIdle
    /\ TrainIdle

SpecCluster == InitCluster /\ [][ClusterNext]_vars

\* repeated runs of ./cluster.py on one context-vector file
InitCache ==
    CacheInit /\ CVIdle /\ SplitIdle /\ ModelIdle /\ EvalIdle /\ ParseIdle
        /\ ClusterIdle /\ WeightIdle
    /\ OrderIdle
    /\ MemoIdle
    /\ TrainIdle

SpecCache == InitCache /\ [][CacheNext]_vars

\* write_cdict on one contexts file
InitWeight ==
    WeightInit /\ CVIdle /\ SplitIdle /\ ModelIdle /\ EvalIdle /\ ParseIdle
        /\ ClusterIdle /\ CacheIdle
    /\ OrderIdle
    /\ MemoIdle
    /\ TrainIdle

SpecWeight == InitWeight /\ [][WeightNext]_vars

\* WordsOrderMixin.cv on one context
InitOrder ==
    OrderInit /\ CVIdle /\ SplitIdle /\ ModelIdle /\ EvalIdle /\ ParseIdle
        /\ ClusterIdle /\ CacheIdle /\ WeightIdle
    /\ MemoIdle
    /\ TrainIdle

SpecOrder == InitOrder /\ [][OrderNext]_vars

\* calls of the memoized lemmatize_s within one process
InitMemo ==
    MemoInit /\ CVIdle /\ SplitIdle /\ ModelIdle /\ EvalIdle /\ ParseIdle
        /\ ClusterIdle /\ CacheIdle /\ WeightIdle /\ OrderIdle
    /\ TrainIdle

SpecMemo == InitMemo /\ [][MemoNext]_vars

\* the train accuracy of a SphericalModel and the baseline of its data
InitTrain ==
    TrainInit /\ CVIdle /\ SplitIdle /\ EvalIdle /\ ParseIdle
        /\ ClusterIdle /\ CacheIdle /\ WeightIdle /\ OrderIdle /\ MemoIdle

SpecTrain == InitTrain /\ [][TrainNext]_vars

====
